---- MODULE Spec2Model ----
(***************************************************************************)
(* Conversation thread store of relay-mcp (internal/memory) and the        *)
(* thread resolution the tools build on it (GetOrCreateThread).            *)
(*                                                                         *)
(* Every method of ConversationMemory runs under the store's RWMutex, so   *)
(* each one is a single atomic action.  GetOrCreateThread takes the lock   *)
(* twice (GetThread, then CreateThread), so it is two actions with a       *)
(* program counter between them.  The clock is discrete; one unit is one   *)
(* hour, the unit of ttlHours.                                             *)
(*                                                                         *)
(* A []string field of a turn (Files, Images) is a slice header: copying   *)
(* the turn copies the header, not the backing array.  A stored turn       *)
(* therefore carries the identity of its backing arrays (Array), and a     *)
(* write through any header of an array is seen through every header of    *)
(* that array.                                                             *)
(***************************************************************************)
EXTENDS Integers, Sequences, FiniteSets, TLC

VARIABLES
    maxTurns,   \* ConversationMemory.maxTurns
    ttlHours,   \* ConversationMemory.ttlHours
    now,        \* the wall clock read by time.Now() / time.Since()
    threads,    \* ConversationMemory.threads: ThreadID -> ThreadContext
    issued,     \* every value uuid.New() has returned so far
    appended,   \* per stored thread: every turn AddTurn appended, in order
    nAdded,     \* number of AddTurn calls that appended a turn
    goc,        \* the GetOrCreateThread call in flight
    ret,        \* the last call: its name, argument and return value
    wf,         \* the workflow tool call (Execute) in flight, or the last one
    generated,  \* every GenerateContent request made to a provider, in order
    caller,     \* what the consensus caller holds between its calls
    mu,         \* ConversationMemory.mu: the goroutines holding the RWMutex
    calls,      \* per goroutine: the store call it is in, and what it holds
    sweep,      \* the StartCleanup goroutine, its context and its ticker
    registry,   \* the provider Registry, and what SelectBestModel returned
    builder     \* a ThreadBuilder, and what BuildConversationHistory returned

\* The state of the tools layer.
toolVars == <<wf, generated, caller>>

\* The state of the store's mutex and of the goroutines calling the store.
lockVars == <<mu, calls, sweep>>

\* The state of what the tools build their prompts with.
libVars == <<registry, builder>>

vars == <<maxTurns, ttlHours, now, threads, issued, appended, nAdded, goc, ret,
          wf, generated, caller, mu, calls, sweep, registry, builder>>

----------------------------------------------------------------------------
(* Bounds of the model *)

MaxIds == 2
MaxTime == 2
MaxOverflow == 1

----------------------------------------------------------------------------
(* Values *)

\* The identifiers uuid.New() can return.
UUIDs == 1..MaxIds
\* The empty continuation identifier "".
EmptyId == 0
\* A well-formed caller string that no thread was ever created under.
UnknownId == -1
\* The nil *ThreadContext.
NilThread == 0
\* The zero time.Time (Timestamp.IsZero()).
ZeroTime == 0
\* Clock value at construction.
StartTime == 1

\* The tool that calls the store directly, and the workflow tool that resolves
\* its thread with GetOrCreateThread.
ToolNames == {"chat"}
WorkflowToolName == "debug"

\* New(maxTurns, ttlHours): the configurations explored.
MaxTurnsValues == {1, 2}
TtlHoursValues == {0, 1}

\* The turn a caller hands to the n-th AddTurn that finds its thread: the
\* callers number their messages ("Turn 0", "Turn 1", ... in the tests), so
\* every turn appended is distinct, and they vary the other fields.
TurnContents == <<"Turn 0", "Turn 1", "Turn 2", "Turn 3", "Turn 4", "Turn 5", "Turn 6">>
TurnInput(n) ==
    [Role |-> IF n % 2 = 0 THEN "user" ELSE "assistant",
     Content |-> TurnContents[n + 1],
     Timestamp |-> IF n % 3 = 2 THEN StartTime ELSE ZeroTime,
     Files |-> IF n % 3 = 0 THEN <<"a.go", "b.go">>
               ELSE IF n % 3 = 1 THEN <<"b.go">> ELSE <<>>,
     Images |-> IF n % 2 = 1 THEN <<"i.png">> ELSE <<>>,
     ToolName |-> IF n % 2 = 0 THEN "chat" ELSE "debug"]
TurnInputs == {TurnInput(nAdded)}

\* What a caller writes into a history it was handed.
OtherTurn ==
    [Role |-> "assistant", Content |-> "overwritten", Timestamp |-> StartTime,
     Files |-> <<>>, Images |-> <<>>, ToolName |-> "other", Array |-> <<EmptyId, 0>>]

\* Identifiers a caller can present to the store: one that was issued, or not.
StoreIds == issued \cup {UnknownId}
\* Continuation identifiers a tool can be called with.
ContinuationIds == issued \cup {EmptyId, UnknownId}

----------------------------------------------------------------------------
(* Helpers *)

\* s[from:] of Go, for 0-based from with 0 <= from <= len(s).
SliceFrom(s, from) == SubSeq(s, from + 1, Len(s))

\* A turn as a caller reads it: its fields, slices read through.
Value(turn) ==
    [Role |-> turn.Role, Content |-> turn.Content, Timestamp |-> turn.Timestamp,
     Files |-> turn.Files, Images |-> turn.Images, ToolName |-> turn.ToolName]

Values(turns) == [i \in 1..Len(turns) |-> Value(turns[i])]

\* The role, content and tool tag of a turn.
Tags(turn) == [Role |-> turn.Role, Content |-> turn.Content, ToolName |-> turn.ToolName]

TagsOf(turns) == [i \in 1..Len(turns) |-> Tags(turns[i])]

Restrict(f, S) == [x \in S |-> f[x]]

RECURSIVE SumTurns(_, _)
SumTurns(t, S) ==
    IF S = {} THEN 0
    ELSE LET id == CHOOSE x \in S : TRUE
         IN Len(t[id].Turns) + SumTurns(t, S \ {id})

\* The record every call leaves in ret.
Ret(op, id) ==
    [op |-> op, id |-> id, thread |-> NilThread, isExisting |-> FALSE,
     err |-> "", history |-> <<>>, files |-> <<>>,
     threadCount |-> 0, totalTurns |-> 0]

GocIdle == [pc |-> "idle", cid |-> EmptyId]

----------------------------------------------------------------------------
(* The thread store *)

\* Mutant: the expiry test with >= for >.
IsExpired_Ge(thread) == now - thread.LastUpdatedAt >= ttlHours

\* time.Since(thread.LastUpdatedAt) > time.Duration(m.ttlHours)*time.Hour
IsExpired(thread) == now - thread.LastUpdatedAt > ttlHours

\* Mutant: the identifier derived from the number of stored threads.
NewUUID_Count == {Cardinality(DOMAIN threads) + 1} \cap UUIDs

\* uuid.New(): a value it has not returned before.  Identifiers are opaque (only
\* compared for equality), so the least unused one stands for any of them.
NewUUID == {id \in UUIDs \ issued : \A other \in UUIDs \ issued : id <= other}

\* The ThreadContext CreateThread builds.
NewThread(id, toolName) ==
    [ThreadID |-> id, CreatedAt |-> now, LastUpdatedAt |-> now,
     ToolName |-> toolName, Turns |-> <<>>]

\* m.threads[thread.ThreadID] = thread
StoreThread(id, toolName) ==
    /\ threads' = [x \in DOMAIN threads \cup {id} |->
                      IF x = id THEN NewThread(id, toolName) ELSE threads[x]]
    /\ appended' = [x \in DOMAIN threads \cup {id} |->
                      IF x = id THEN <<>> ELSE appended[x]]
    /\ issued' = issued \cup {id}

CreateThread(toolName) ==
    \E id \in NewUUID :
        /\ StoreThread(id, toolName)
        /\ ret' = [Ret("CreateThread", EmptyId) EXCEPT !.thread = id]
        /\ UNCHANGED <<maxTurns, ttlHours, now, nAdded, goc, toolVars, lockVars, libVars>>

\* Mutant: GetThread without the expiry test.
GetThreadResult_NoExpiry(threadID) ==
    IF threadID \notin DOMAIN threads THEN NilThread ELSE threadID

\* What GetThread returns: the live pointer, or nil.
GetThreadResult(threadID) ==
    IF threadID \notin DOMAIN threads THEN NilThread
    ELSE IF IsExpired(threads[threadID]) THEN NilThread
    ELSE threadID

GetThread(threadID) ==
    /\ ret' = [Ret("GetThread", threadID) EXCEPT !.thread = GetThreadResult(threadID)]
    /\ UNCHANGED <<maxTurns, ttlHours, now, threads, issued, appended, nAdded, goc, toolVars, lockVars, libVars>>

\* The index the trim keeps from: len(thread.Turns)-m.maxTurns+1.
TrimStart(len) == len - maxTurns + 1

\* Mutant: the trim entered only when len(thread.Turns) > maxTurns.
Trimmed_Gt(turns) ==
    IF Len(turns) > maxTurns THEN SliceFrom(turns, TrimStart(Len(turns))) ELSE turns

\* Mutant: the trim keeping the oldest maxTurns-1 turns (thread.Turns[:maxTurns-1]).
Trimmed_Head(turns) ==
    IF Len(turns) >= maxTurns THEN SubSeq(turns, 1, maxTurns - 1) ELSE turns

\* thread.Turns after the "enforce max turns" block.
Trimmed(turns) ==
    IF Len(turns) >= maxTurns THEN SliceFrom(turns, TrimStart(Len(turns))) ELSE turns

\* Mutant: the stamp also overwriting the turn's tool tag.
Stamped_Retag(turn) ==
    [turn EXCEPT !.Timestamp = IF @ = ZeroTime THEN now ELSE @, !.ToolName = "chat"]

\* if turn.Timestamp.IsZero() { turn.Timestamp = time.Now() }
Stamped(turn) ==
    IF turn.Timestamp = ZeroTime THEN [turn EXCEPT !.Timestamp = now] ELSE turn

\* The turn with the identity of the arrays its slices refer to: the caller's,
\* fresh for each call.
WithArray(turn, threadID) ==
    [Role |-> turn.Role, Content |-> turn.Content, Timestamp |-> turn.Timestamp,
     Files |-> turn.Files, Images |-> turn.Images, ToolName |-> turn.ToolName,
     Array |-> <<threadID, Len(appended[threadID]) + 1>>]

\* Mutant: the append without the refresh of LastUpdatedAt.
AppendTurn_NoRefresh(threadID, turn) ==
    /\ threads' = [threads EXCEPT
                     ![threadID].Turns =
                         Append(Trimmed(@), WithArray(Stamped(turn), threadID))]
    /\ appended' = [appended EXCEPT ![threadID] = Append(@, Stamped(turn))]
    /\ nAdded' = nAdded + 1

\* Mutant: the append refreshing LastUpdatedAt of every stored thread.
AppendTurn_RefreshAll(threadID, turn) ==
    /\ threads' = [id \in DOMAIN threads |->
                      IF id = threadID
                      THEN [threads[id] EXCEPT
                              !.Turns = Append(Trimmed(@), WithArray(Stamped(turn), id)),
                              !.LastUpdatedAt = now]
                      ELSE [threads[id] EXCEPT !.LastUpdatedAt = now]]
    /\ appended' = [appended EXCEPT ![threadID] = Append(@, Stamped(turn))]
    /\ nAdded' = nAdded + 1

\* AddTurn on a thread it found: stamp, trim, append, refresh LastUpdatedAt.
AppendTurn(threadID, turn) ==
    /\ threads' = [threads EXCEPT
                     ![threadID].Turns =
                         Append(Trimmed(@), WithArray(Stamped(turn), threadID)),
                     ![threadID].LastUpdatedAt = now]
    /\ appended' = [appended EXCEPT ![threadID] = Append(@, Stamped(turn))]
    /\ nAdded' = nAdded + 1

\* The run-time panic of a slice expression whose low bound is past the end.
SliceOutOfRange == "slice bounds out of range"

\* thread.Turns[len(thread.Turns)-m.maxTurns+1:] is entered with a low bound
\* past len(thread.Turns): the expression panics.
TrimPanics(turns) == Len(turns) >= maxTurns /\ TrimStart(Len(turns)) > Len(turns)

\* AddTurn on a thread it found.  A panic in the trim leaves the method
\* before the append; the deferred Unlock runs.
AddTurnFound(threadID, turn) ==
    /\ nAdded < (IF maxTurns > 0 THEN maxTurns ELSE 0) + MaxOverflow
    /\ IF TrimPanics(threads[threadID].Turns)
       THEN /\ ret' = [Ret("AddTurn", threadID) EXCEPT !.err = SliceOutOfRange]
            /\ UNCHANGED <<threads, appended, nAdded>>
       ELSE /\ AppendTurn(threadID, turn)
            /\ ret' = Ret("AddTurn", threadID)
    /\ UNCHANGED <<maxTurns, ttlHours, now, issued, goc, toolVars, lockVars, libVars>>

\* Mutant: AddTurn creating the thread it does not find.
AddTurnMissing_Upsert(threadID) ==
    /\ threads' = [x \in DOMAIN threads \cup {threadID} |->
                      IF x = threadID THEN NewThread(threadID, "") ELSE threads[x]]
    /\ appended' = [x \in DOMAIN threads \cup {threadID} |->
                      IF x = threadID THEN <<>> ELSE appended[x]]
    /\ ret' = Ret("AddTurn", threadID)
    /\ UNCHANGED <<maxTurns, ttlHours, now, issued, nAdded, goc, toolVars, lockVars, libVars>>

AddTurnMissing(threadID) ==
    /\ ret' = [Ret("AddTurn", threadID) EXCEPT !.err = "ErrThreadNotFound"]
    /\ UNCHANGED <<maxTurns, ttlHours, now, threads, issued, appended, nAdded, goc, toolVars, lockVars, libVars>>

AddTurn(threadID, turn) ==
    IF threadID \in DOMAIN threads
    THEN AddTurnFound(threadID, turn)
    ELSE AddTurnMissing(threadID)

\* The store AddTurn(threadID, turn) leaves, as a function of the store it finds.
AddTurnTo(store, threadID, turn) ==
    IF threadID \notin DOMAIN store THEN store
    ELSE [store EXCEPT
            ![threadID].Turns =
                Append(Trimmed(@), WithArray(Stamped(turn), threadID)),
            ![threadID].LastUpdatedAt = now]

\* Mutant: make([]T, 0, len) before the copy, which then copies nothing.
CopyTurns_Empty(turns) == <<>>

\* history := make(..., len(thread.Turns)); copy(history, thread.Turns)
CopyTurns(turns) == [i \in 1..Len(turns) |-> turns[i]]

GetHistoryResult(threadID) ==
    IF threadID \notin DOMAIN threads THEN <<>> ELSE CopyTurns(threads[threadID].Turns)

GetHistory(threadID) ==
    /\ ret' = [Ret("GetHistory", threadID) EXCEPT !.history = GetHistoryResult(threadID)]
    /\ UNCHANGED <<maxTurns, ttlHours, now, threads, issued, appended, nAdded, goc, toolVars, lockVars, libVars>>

\* The inner loop of GetFileList over one turn's Files.
RECURSIVE CollectFiles(_, _)
CollectFiles(files, fs) ==
    IF fs = <<>> THEN files
    ELSE CollectFiles(IF \E k \in 1..Len(files) : files[k] = Head(fs)
                      THEN files ELSE Append(files, Head(fs)),
                      Tail(fs))

\* Mutant: the scan running oldest to newest.
RECURSIVE ScanTurns_Oldest(_, _, _)
ScanTurns_Oldest(turns, i, files) ==
    IF i < 1 THEN files
    ELSE CollectFiles(ScanTurns_Oldest(turns, i - 1, files), turns[i].Files)

\* The outer loop: i from len(thread.Turns)-1 down to 0 (here from Len down to 1).
RECURSIVE ScanTurns(_, _, _)
ScanTurns(turns, i, files) ==
    IF i < 1 THEN files
    ELSE ScanTurns(turns, i - 1, CollectFiles(files, turns[i].Files))

GetFileListResult(threadID) ==
    IF threadID \notin DOMAIN threads THEN <<>>
    ELSE ScanTurns(threads[threadID].Turns, Len(threads[threadID].Turns), <<>>)

GetFileList(threadID) ==
    /\ ret' = [Ret("GetFileList", threadID) EXCEPT !.files = GetFileListResult(threadID)]
    /\ UNCHANGED <<maxTurns, ttlHours, now, threads, issued, appended, nAdded, goc, toolVars, lockVars, libVars>>

\* Mutant: the sweep deleting with >= for >.
Survivors_Ge == {id \in DOMAIN threads : ~(now - threads[id].LastUpdatedAt >= ttlHours)}

\* The threads one sweep keeps.
Survivors == {id \in DOMAIN threads : ~(now - threads[id].LastUpdatedAt > ttlHours)}

\* delete(m.threads, id) takes the entry out of the map; a call that holds
\* the pointer keeps the struct, with the turns it had.
Unlinked ==
    IF wf.thread \in DOMAIN threads \ Survivors
    THEN [wf EXCEPT !.unlinked = threads[wf.thread].Turns]
    ELSE wf

cleanup ==
    /\ threads' = Restrict(threads, Survivors)
    /\ appended' = Restrict(appended, Survivors)
    /\ wf' = Unlinked
    /\ ret' = Ret("cleanup", EmptyId)
    /\ UNCHANGED <<maxTurns, ttlHours, now, issued, nAdded, goc, generated, caller,
                   lockVars, libVars>>

StatsResult ==
    [ThreadCount |-> Cardinality(DOMAIN threads),
     TotalTurns |-> SumTurns(threads, DOMAIN threads)]

Stats ==
    /\ ret' = [Ret("Stats", EmptyId) EXCEPT !.threadCount = StatsResult.ThreadCount,
                                              !.totalTurns = StatsResult.TotalTurns]
    /\ UNCHANGED <<maxTurns, ttlHours, now, threads, issued, appended, nAdded, goc, toolVars, lockVars, libVars>>

\* Time passes.
Tick ==
    /\ now < MaxTime
    /\ now' = now + 1
    /\ ret' = Ret("Tick", EmptyId)
    /\ UNCHANGED <<maxTurns, ttlHours, threads, issued, appended, nAdded, goc, toolVars, lockVars, libVars>>

----------------------------------------------------------------------------
(* Thread resolution of the tools *)

\* if continuationID == "" { return t.memory.CreateThread(t.name), false }
GocCreateEmpty ==
    /\ goc.pc = "idle"
    /\ \E id \in NewUUID :
        /\ StoreThread(id, WorkflowToolName)
        /\ ret' = [Ret("GetOrCreateThread", EmptyId) EXCEPT !.thread = id]
    /\ UNCHANGED <<maxTurns, ttlHours, now, nAdded, goc, toolVars, lockVars, libVars>>

\* thread := t.memory.GetThread(continuationID); return thread, true when found.
GocLookup(continuationID) ==
    /\ goc.pc = "idle"
    /\ continuationID # EmptyId
    /\ LET thread == GetThreadResult(continuationID)
       IN IF thread # NilThread
          THEN /\ ret' = [Ret("GetOrCreateThread", continuationID) EXCEPT
                            !.thread = thread, !.isExisting = TRUE]
               /\ goc' = goc
          ELSE /\ ret' = Ret("GetOrCreateThread.GetThread", continuationID)
               /\ goc' = [pc |-> "create", cid |-> continuationID]
    /\ UNCHANGED <<maxTurns, ttlHours, now, threads, issued, appended, nAdded, toolVars, lockVars, libVars>>

\* if thread == nil { return t.memory.CreateThread(t.name), false }
GocCreate ==
    /\ goc.pc = "create"
    /\ \E id \in NewUUID :
        /\ StoreThread(id, WorkflowToolName)
        /\ ret' = [Ret("GetOrCreateThread", goc.cid) EXCEPT !.thread = id]
    /\ goc' = GocIdle
    /\ UNCHANGED <<maxTurns, ttlHours, now, nAdded, toolVars, lockVars, libVars>>

GetOrCreateThread ==
    \/ GocCreateEmpty
    \/ \E continuationID \in ContinuationIds : GocLookup(continuationID)
    \/ GocCreate

----------------------------------------------------------------------------
(* A caller writing into the history GetHistory handed it *)

CallerWrites == {"history[i] = t", "history[i].Content = s",
                 "history[i].Files[j] = s", "history[i].Images[j] = s"}

HoldsHistory == ret.op \in {"GetHistory"} \cup CallerWrites

\* turns with every slice header of array a showing the write.
WriteFiles(turns, a, j, s) ==
    [i \in 1..Len(turns) |->
        IF turns[i].Array = a THEN [turns[i] EXCEPT !.Files[j] = s] ELSE turns[i]]

WriteImages(turns, a, j, s) ==
    [i \in 1..Len(turns) |->
        IF turns[i].Array = a THEN [turns[i] EXCEPT !.Images[j] = s] ELSE turns[i]]

\* history[i] = t
SetTurn(i) ==
    /\ HoldsHistory
    /\ i \in 1..Len(ret.history)
    /\ ret' = [ret EXCEPT !.op = "history[i] = t", !.history[i] = OtherTurn]
    /\ UNCHANGED <<maxTurns, ttlHours, now, threads, issued, appended, nAdded, goc, toolVars, lockVars, libVars>>

\* history[i].Content = s
SetContent(i) ==
    /\ HoldsHistory
    /\ i \in 1..Len(ret.history)
    /\ ret' = [ret EXCEPT !.op = "history[i].Content = s",
                          !.history[i].Content = "overwritten"]
    /\ UNCHANGED <<maxTurns, ttlHours, now, threads, issued, appended, nAdded, goc, toolVars, lockVars, libVars>>

\* history[i].Files[j] = s
SetFile(i, j) ==
    /\ HoldsHistory
    /\ i \in 1..Len(ret.history)
    /\ j \in 1..Len(ret.history[i].Files)
    /\ LET a == ret.history[i].Array
       IN /\ ret' = [ret EXCEPT !.op = "history[i].Files[j] = s",
                                !.history = WriteFiles(@, a, j, "overwritten")]
          /\ threads' = [id \in DOMAIN threads |->
                            [threads[id] EXCEPT
                               !.Turns = WriteFiles(@, a, j, "overwritten")]]
    /\ UNCHANGED <<maxTurns, ttlHours, now, issued, appended, nAdded, goc, toolVars, lockVars, libVars>>

\* history[i].Images[j] = s
SetImage(i, j) ==
    /\ HoldsHistory
    /\ i \in 1..Len(ret.history)
    /\ j \in 1..Len(ret.history[i].Images)
    /\ LET a == ret.history[i].Array
       IN /\ ret' = [ret EXCEPT !.op = "history[i].Images[j] = s",
                                !.history = WriteImages(@, a, j, "overwritten")]
          /\ threads' = [id \in DOMAIN threads |->
                            [threads[id] EXCEPT
                               !.Turns = WriteImages(@, a, j, "overwritten")]]
    /\ UNCHANGED <<maxTurns, ttlHours, now, issued, appended, nAdded, goc, toolVars, lockVars, libVars>>

----------------------------------------------------------------------------
(* The workflow tools *)

\* The tools built on WorkflowTool, one for each shape of Execute: "debug"
\* (codereview, thinkdeep and planner take the same steps), "analyze", and
\* "testgen" (refactor and precommit take the same steps).
WorkflowTools == {"debug", "analyze", "testgen"}

\* The tools whose Execute tests state.NextStepRequired after saving the step.
ReturnsGuidance == {"debug"}

\* The tools whose Execute saves the expert's reply as an assistant turn.
PersistsReply == {"debug", "analyze"}

\* The payload of a call (args map[string]any): a function of the keys present.
NoArgs == [k \in {} |-> ""]

OptionalArg(key, values) == {NoArgs} \cup {[k \in {key} |-> v] : v \in values}

\* ArgumentParser.GetString, GetBool, GetInt: the value, or the default when
\* the key is absent.
GetString(args, key) == IF key \in DOMAIN args THEN args[key] ELSE ""

GetBool(args, key, defaultVal) == IF key \in DOMAIN args THEN args[key] ELSE defaultVal

GetInt(args, key, defaultVal) == IF key \in DOMAIN args THEN args[key] ELSE defaultVal

\* The findings a caller reports: it numbers them, as it numbers its turns, so
\* the findings of every step that is saved are distinct.
FindingsTexts == <<"f0", "f1", "f2", "f3", "f4", "f5", "f6">>

\* The payloads explored: step and findings absent, empty or given; any
\* continuation identifier; the two flags absent (their defaults) or set
\* against the default, the latter only beside both required fields.
WorkflowPayloads ==
    {args \in {s @@ f @@ n @@ u @@ c :
                  s \in OptionalArg("step", {"", "s"}),
                  f \in OptionalArg("findings", {"", FindingsTexts[nAdded + 1]}),
                  n \in OptionalArg("next_step_required", {TRUE}),
                  u \in OptionalArg("use_assistant_model", {FALSE}),
                  c \in {[k \in {"continuation_id"} |-> id] : id \in ContinuationIds}} :
        \/ GetString(args, "step") # "" /\ GetString(args, "findings") # ""
        \/ DOMAIN args \cap {"next_step_required", "use_assistant_model"} = {}}

\* GetString for continuation_id, whose values are identifiers.
GetId(args, key) == IF key \in DOMAIN args THEN args[key] ELSE EmptyId

\* The WorkflowState of a payload that names both required fields.
WorkflowState(args) ==
    [err |-> "",
     Step |-> GetString(args, "step"),
     StepNumber |-> GetInt(args, "step_number", 1),
     NextStepRequired |-> GetBool(args, "next_step_required", FALSE),
     Findings |-> GetString(args, "findings"),
     ContinuationID |-> GetId(args, "continuation_id"),
     UseAssistant |-> GetBool(args, "use_assistant_model", TRUE)]

ErrMissingRequired(field) == [err |-> "ErrMissingRequired", Field |-> field]

\* Mutant: the parse requiring step only.
ParseWorkflowState_StepOnly(args) ==
    IF GetString(args, "step") = "" THEN ErrMissingRequired("step")
    ELSE WorkflowState(args)

ParseWorkflowState(args) ==
    IF GetString(args, "step") = "" THEN ErrMissingRequired("step")
    ELSE IF GetString(args, "findings") = "" THEN ErrMissingRequired("findings")
    ELSE WorkflowState(args)

\* No call in flight.
WfIdle ==
    [pc |-> "idle", tool |-> "", state |-> [err |-> ""], thread |-> NilThread,
     persisted |-> <<>>, gen |-> 0, reply |-> "", result |-> "", err |-> "",
     findings |-> <<>>, report |-> [index |-> 0, names |-> <<>>],
     unlinked |-> <<>>, prompt |-> <<>>]

\* The text of the step turn each tool saves.
StepContent(tool, state) ==
    IF tool = "debug"
    THEN "Step 1: " \o state.Step \o "\n\nFindings: " \o state.Findings \o "\n\nHypothesis: "
    ELSE IF tool = "analyze"
    THEN "Analysis Step 1: " \o state.Step \o "\n\nFindings: " \o state.Findings
    ELSE "TestGen Step 1: " \o state.Step

\* types.ConversationTurn{Role: ..., Content: ..., ToolName: t.name}
ToolTurn(tool, role, content) ==
    [Role |-> role, Content |-> content, Timestamp |-> ZeroTime,
     Files |-> <<>>, Images |-> <<>>, ToolName |-> tool]

\* resp.Content of a GenerateContent that succeeds.
ExpertReply == "expert reply"

\* The findings in the text a finalizing call without an expert returns:
\* state.Findings for debug ("**Findings:**\n%s"), none for the tools that
\* return "... step recorded.".
ResultFindings(tool, state) == IF tool = "debug" THEN <<state.Findings>> ELSE <<>>

\* The budget of a call: an identifier for the thread it may create and room
\* for the turns it may append.
MaxAppendsPerCall == 2

CallFits ==
    /\ Cardinality(issued) < MaxIds
    /\ nAdded + MaxAppendsPerCall <= maxTurns + MaxOverflow

\* _ = t.memory.AddTurn(threadID, turn): the error, if any, is dropped.
SaveTurn(threadID, turn) ==
    IF threadID \in DOMAIN threads
    THEN /\ AppendTurn(threadID, turn)
         /\ UNCHANGED issued
    ELSE UNCHANGED <<threads, appended, nAdded, issued>>

\* wf.persisted after SaveTurn.
Persisted(threadID, turn) ==
    IF threadID \in DOMAIN threads THEN Append(wf.persisted, Tags(turn)) ELSE wf.persisted

\* Execute up to the return of ParseWorkflowState.
ExecuteParse(tool, args) ==
    /\ wf.pc = "idle"
    /\ LET state == ParseWorkflowState(args)
       IN IF state.err # ""
          THEN wf' = [WfIdle EXCEPT !.pc = "returned", !.tool = tool, !.state = state,
                                    !.err = state.err]
          ELSE /\ CallFits
               /\ wf' = [WfIdle EXCEPT !.pc = "resolve", !.tool = tool, !.state = state]
    /\ ret' = Ret("Execute", GetId(args, "continuation_id"))
    /\ UNCHANGED <<maxTurns, ttlHours, now, threads, issued, appended, nAdded, goc, lockVars, libVars,
                   generated, caller>>

\* t.GetOrCreateThread(state.ContinuationID) up to its first store call.
ExecuteResolve ==
    /\ wf.pc = "resolve"
    /\ LET continuationID == wf.state.ContinuationID
           thread == GetThreadResult(continuationID)
       IN IF continuationID = EmptyId
          THEN \E id \in NewUUID :
                  /\ StoreThread(id, wf.tool)
                  /\ wf' = [wf EXCEPT !.pc = "resolved", !.thread = id]
          ELSE /\ wf' = IF thread # NilThread
                        THEN [wf EXCEPT !.pc = "resolved", !.thread = thread]
                        ELSE [wf EXCEPT !.pc = "create"]
               /\ UNCHANGED <<threads, issued, appended>>
    /\ ret' = Ret("Execute.GetOrCreateThread", wf.state.ContinuationID)
    /\ UNCHANGED <<maxTurns, ttlHours, now, nAdded, goc, lockVars, libVars, generated, caller>>

\* GetOrCreateThread after GetThread returned nil: CreateThread.
ExecuteCreate ==
    /\ wf.pc = "create"
    /\ \E id \in NewUUID :
          /\ StoreThread(id, wf.tool)
          /\ wf' = [wf EXCEPT !.pc = "resolved", !.thread = id]
    /\ ret' = Ret("Execute.CreateThread", wf.state.ContinuationID)
    /\ UNCHANGED <<maxTurns, ttlHours, now, nAdded, goc, lockVars, libVars, generated, caller>>

\* The step saved as a user turn, and the branch Execute takes after it.
ExecuteSaveStep ==
    /\ wf.pc = "resolved"
    /\ wf.tool \in WorkflowTools
    /\ LET turn == ToolTurn(wf.tool, "user", StepContent(wf.tool, wf.state))
           saved == [wf EXCEPT !.persisted = Persisted(wf.thread, turn)]
       IN /\ SaveTurn(wf.thread, turn)
          /\ wf' = IF wf.tool \in ReturnsGuidance /\ wf.state.NextStepRequired
                   THEN [saved EXCEPT !.pc = "returned", !.result = "guidance"]
                   ELSE IF wf.state.UseAssistant
                   THEN [saved EXCEPT !.pc = "expert"]
                   ELSE [saved EXCEPT !.pc = "returned", !.result = "recorded",
                                      !.findings = ResultFindings(wf.tool, wf.state)]
    /\ ret' = Ret("Execute.AddTurn", wf.thread)
    /\ UNCHANGED <<maxTurns, ttlHours, now, goc, lockVars, libVars, generated, caller>>

\* The outcomes of a call that reaches a provider.
Outcomes == {"no model", "failed", "ok"}

\* The error of an outcome: none selected (ErrNoModelAvailable, provider not
\* found) or a GenerateContent that failed, timed out or was cancelled.
Failure(outcome) == IF outcome = "ok" THEN "" ELSE "UpstreamError"

\* The step texts of the payloads: a plain one, and one that holds the
\* marker ConsolidateFindings looks for.
MarkedStep == "see findings: s"
StepTexts == {"s", MarkedStep}

\* strings.Contains(turn.Content, "findings:"), case-sensitive: the step
\* turns are written with "Findings: ", so the contents that hold the marker
\* are those built over a step text that holds it.
ContainsFindings(content) ==
    \E tool \in WorkflowTools, i \in 0..Len(FindingsTexts) :
        content = StepContent(tool, [Step |-> MarkedStep,
                                     Findings |-> IF i = 0 THEN ""
                                                  ELSE FindingsTexts[i]])

\* thread.Turns on the pointer the call holds.
HeldTurns ==
    IF wf.thread \in DOMAIN threads THEN threads[wf.thread].Turns ELSE wf.unlinked

\* WorkflowTool.ConsolidateFindings(thread, currentFindings): the parts that
\* strings.Join puts together.
Consolidated(turns, currentFindings) ==
    LET kept == SelectSeq(turns, LAMBDA turn :
                             turn.Role = "user" /\ ContainsFindings(turn.Content))
    IN [i \in 1..Len(kept) |-> kept[i].Content]
          \o (IF currentFindings # "" THEN <<currentFindings>> ELSE <<>>)

\* What the prompt of the expert call holds of the investigation: the
\* consolidated findings for debug, state.Findings alone for the tools that
\* format it into their prompt.
ExpertContext ==
    IF wf.tool = "debug" THEN Consolidated(HeldTurns, wf.state.Findings)
    ELSE <<wf.state.Findings>>

\* t.CallExpertModel: no model selected, or a GenerateContent that fails or
\* succeeds.
ExecuteCallExpertModel(outcome) ==
    /\ wf.pc = "expert"
    /\ generated' = IF outcome = "no model" THEN generated
                    ELSE Append(generated, [kind |-> "expert", tool |-> wf.tool,
                                            context |-> ExpertContext])
    /\ LET called == [wf EXCEPT !.gen = IF outcome = "no model" THEN @ ELSE @ + 1]
       IN wf' = IF outcome # "ok"
                THEN [called EXCEPT !.pc = "returned", !.err = "UpstreamError"]
                ELSE IF wf.tool \in PersistsReply
                THEN [called EXCEPT !.pc = "reply", !.reply = ExpertReply]
                ELSE [called EXCEPT !.pc = "returned", !.reply = ExpertReply,
                                    !.result = ExpertReply]
    /\ ret' = [Ret("Execute.CallExpertModel", wf.thread) EXCEPT !.err = Failure(outcome)]
    /\ UNCHANGED <<maxTurns, ttlHours, now, threads, issued, appended, nAdded, goc, lockVars, libVars,
                   caller>>

\* The reply saved as an assistant turn, and returned.
ExecuteSaveReply ==
    /\ wf.pc = "reply"
    /\ LET turn == ToolTurn(wf.tool, "assistant", wf.reply)
       IN /\ SaveTurn(wf.thread, turn)
          /\ wf' = [wf EXCEPT !.pc = "returned", !.result = wf.reply,
                              !.persisted = Persisted(wf.thread, turn)]
    /\ ret' = Ret("Execute.AddTurn", wf.thread)
    /\ UNCHANGED <<maxTurns, ttlHours, now, goc, lockVars, libVars, generated, caller>>

\* Execute returns: the result or the error goes back to the caller.
ExecuteReturn ==
    /\ wf.pc = "returned"
    /\ wf.tool \in WorkflowTools
    /\ wf' = WfIdle
    /\ ret' = Ret("Execute.return", wf.thread)
    /\ UNCHANGED <<maxTurns, ttlHours, now, threads, issued, appended, nAdded, goc, lockVars, libVars,
                   generated, caller>>

\* No consensus session.
CallerIdle == [pc |-> "idle"]

----------------------------------------------------------------------------
(* The consensus tool *)

ConsensusToolName == "consensus"

\* The longest models list of a payload.
MaxModels == 4

\* The entries of a models list: {model, stance}, the model possibly empty.
ModelEntries ==
    {[model |-> "", stance |-> "for"], [model |-> "A", stance |-> "for"],
     [model |-> "B", stance |-> "for"], [model |-> "A", stance |-> "against"]}

ModelLists == UNION {[1..n -> ModelEntries] : n \in 0..MaxModels}

\* The loop of parseConsensusState over modelsRaw: entries without a model
\* name are left out.
RECURSIVE ParseModels(_)
ParseModels(modelsRaw) ==
    IF modelsRaw = <<>> THEN <<>>
    ELSE IF Head(modelsRaw).model # ""
    THEN <<Head(modelsRaw)>> \o ParseModels(Tail(modelsRaw))
    ELSE ParseModels(Tail(modelsRaw))

GetObjectArray(args, key) == IF key \in DOMAIN args THEN args[key] ELSE <<>>

\* The ConsensusState of a payload whose base state parsed.
ConsensusState(args) ==
    WorkflowState(args) @@
    [Proposal |-> GetString(args, "step"),
     CurrentModelIndex |-> GetInt(args, "current_model_index", 0),
     Models |-> ParseModels(GetObjectArray(args, "models")),
     ModelResponses |-> GetObjectArray(args, "model_responses")]

parseConsensusState(args) ==
    IF ParseWorkflowState(args).err # "" THEN ParseWorkflowState(args)
    ELSE ConsensusState(args)

\* validateModels: some "model:stance" key is seen twice.
HasDuplicate(models) ==
    \E i, j \in 1..Len(models) :
        i < j /\ models[i].model = models[j].model /\ models[i].stance = models[j].stance

ValidationErrors == {"consensus requires at least 2 models",
                     "duplicate model+stance combination"}

\* fmt.Sprintf("%v", state.Models): the entries in braces, in list order,
\* between brackets.
RECURSIVE SprintEntries(_)
SprintEntries(models) ==
    IF models = <<>> THEN ""
    ELSE "{" \o Head(models).model \o " " \o Head(models).stance \o " }"
            \o (IF Tail(models) = <<>> THEN "" ELSE " ")
            \o SprintEntries(Tail(models))

Sprint(models) == "[" \o SprintEntries(models) \o "]"

\* The text of the turn that stores the proposal.
ProposalContent(state) == "Proposal: " \o state.Step \o "\n\nModels: " \o Sprint(state.Models)

\* formatModels: one line per entry, "%d. %s (%s)", in the order of the list.
RECURSIVE formatModels(_)
formatModels(models) ==
    IF models = <<>> THEN <<>>
    ELSE <<Head(models).model \o " (" \o Head(models).stance \o ")">>
             \o formatModels(Tail(models))

\* buildResponse(state, guidance, nextModelIndex): the index written after
\* "current_model_index: ", and the participants the guidance names.
buildResponse(names, nextModelIndex) == [index |-> nextModelIndex, names |-> names]

\* resp.Content of the GenerateContent that consults a participant.
Response(model) == model.model \o " argues " \o model.stance

ModelResponseRecord(model) ==
    [model |-> model.model, stance |-> model.stance, response |-> Response(model)]

\* resp.Content of the GenerateContent that synthesizes.
Synthesis == "synthesis"

\* What the caller holds after step 1: the list it sent, and what the tool
\* returned to it since.
Session(models, continuationID) ==
    [pc |-> "session", models |-> models, step |-> 1, index |-> 0,
     responses |-> <<>>, cid |-> continuationID, gen0 |-> Len(generated)]

\* Execute up to the return of parseConsensusState.
ConsensusParse(args) ==
    /\ wf.pc = "idle"
    /\ CallFits
    /\ LET state == parseConsensusState(args)
       IN wf' = IF state.err # ""
                THEN [WfIdle EXCEPT !.pc = "returned", !.tool = ConsensusToolName,
                                    !.state = state, !.err = state.err]
                ELSE [WfIdle EXCEPT !.pc = "resolve", !.tool = ConsensusToolName,
                                    !.state = state]
    /\ ret' = Ret("Execute", GetId(args, "continuation_id"))
    /\ UNCHANGED <<maxTurns, ttlHours, now, threads, issued, appended, nAdded, goc, lockVars, libVars,
                   generated>>

\* The caller submits a proposal: step 1.
ConsensusStart(models, continuationID) ==
    /\ caller.pc = "idle"
    /\ ConsensusParse([step |-> "proposal", findings |-> "f", step_number |-> 1,
                       models |-> models, continuation_id |-> continuationID])
    /\ caller' = Session(models, continuationID)

\* The caller tries payloads of its own until one of them has reached a
\* provider.
LogFits == generated = <<>>

\* The caller sends a payload of its own making, whatever it holds from
\* earlier calls.
ConsensusCall(stepNumber, nextStepRequired, models, index, responses, continuationID) ==
    /\ LogFits
    /\ ConsensusParse([step |-> "proposal", findings |-> "f",
                       step_number |-> stepNumber,
                       next_step_required |-> nextStepRequired,
                       models |-> models,
                       current_model_index |-> index,
                       model_responses |-> responses,
                       continuation_id |-> continuationID])
    /\ caller' = [Session(models, continuationID) EXCEPT
                     !.step = stepNumber, !.index = index, !.responses = responses]

\* The caller re-invokes with what the last call returned to it.
ConsensusContinue(nextStepRequired) ==
    /\ caller.pc = "session"
    /\ ConsensusParse([step |-> "continue", findings |-> "f",
                       step_number |-> caller.step + 1,
                       next_step_required |-> nextStepRequired,
                       models |-> caller.models,
                       current_model_index |-> caller.index,
                       model_responses |-> caller.responses,
                       continuation_id |-> caller.cid])
    /\ caller' = [caller EXCEPT !.step = @ + 1]

\* Mutant: step 1 that reports the index of the payload.
ConsensusStep1_KeepIndex ==
    /\ wf.pc = "resolved"
    /\ wf.tool = ConsensusToolName
    /\ wf.state.StepNumber = 1
    /\ LET turn == ToolTurn(wf.tool, "user", ProposalContent(wf.state))
       IN IF Len(wf.state.Models) < 2
          THEN /\ wf' = [wf EXCEPT !.pc = "returned",
                                   !.err = "consensus requires at least 2 models"]
               /\ UNCHANGED <<threads, appended, nAdded, issued>>
          ELSE IF HasDuplicate(wf.state.Models)
          THEN /\ wf' = [wf EXCEPT !.pc = "returned",
                                   !.err = "duplicate model+stance combination"]
               /\ UNCHANGED <<threads, appended, nAdded, issued>>
          ELSE /\ SaveTurn(wf.thread, turn)
               /\ wf' = [wf EXCEPT !.pc = "returned", !.result = "guidance",
                                   !.persisted = Persisted(wf.thread, turn),
                                   !.report = buildResponse(formatModels(wf.state.Models),
                                                           wf.state.CurrentModelIndex)]
    /\ ret' = Ret("Execute.AddTurn", wf.thread)
    /\ UNCHANGED <<maxTurns, ttlHours, now, goc, lockVars, libVars, generated, caller>>

\* if state.StepNumber == 1 { ... }: the two validations, then the proposal
\* saved as a user turn.
ConsensusStep1 ==
    /\ wf.pc = "resolved"
    /\ wf.tool = ConsensusToolName
    /\ wf.state.StepNumber = 1
    /\ LET turn == ToolTurn(wf.tool, "user", ProposalContent(wf.state))
       IN IF Len(wf.state.Models) < 2
          THEN /\ wf' = [wf EXCEPT !.pc = "returned",
                                   !.err = "consensus requires at least 2 models"]
               /\ UNCHANGED <<threads, appended, nAdded, issued>>
          ELSE IF HasDuplicate(wf.state.Models)
          THEN /\ wf' = [wf EXCEPT !.pc = "returned",
                                   !.err = "duplicate model+stance combination"]
               /\ UNCHANGED <<threads, appended, nAdded, issued>>
          ELSE /\ SaveTurn(wf.thread, turn)
               /\ wf' = [wf EXCEPT !.pc = "returned", !.result = "guidance",
                                   !.persisted = Persisted(wf.thread, turn),
                                   !.report = buildResponse(formatModels(wf.state.Models), 0)]
    /\ ret' = Ret("Execute.AddTurn", wf.thread)
    /\ UNCHANGED <<maxTurns, ttlHours, now, goc, lockVars, libVars, generated, caller>>

\* if state.NextStepRequired && state.CurrentModelIndex < len(state.Models)
Consults ==
    /\ wf.state.StepNumber # 1
    /\ wf.state.NextStepRequired
    /\ wf.state.CurrentModelIndex < Len(wf.state.Models)

\* truncateText(resp.Response, 500) in buildStancePrompt.
MaxPerspectiveLen == 500

\* truncateText(s, maxLen): len(s), s[:maxLen] and + on the text.
truncateText(s, maxLen) ==
    IF Len(s) <= maxLen THEN s ELSE SubSeq(s, 1, maxLen) \o "..."

\* buildStancePrompt, "## Previous Perspectives": the text it includes for
\* each response of state.ModelResponses, in order.
PreviousPerspectives(state) ==
    [i \in 1..Len(state.ModelResponses) |->
        truncateText(state.ModelResponses[i].response, MaxPerspectiveLen)]

\* The run-time panic of an index expression outside its slice.
IndexOutOfRange == "index out of range"

\* model := state.Models[state.CurrentModelIndex], then
\* t.consultModel(ctx, model, state) and the append to state.ModelResponses.
\* The index expression panics on a negative index: the call ends there.
ConsensusConsult(outcome) ==
    /\ wf.pc = "resolved"
    /\ wf.tool = ConsensusToolName
    /\ Consults
    /\ LET model == wf.state.Models[wf.state.CurrentModelIndex + 1]
           called == [wf EXCEPT !.gen = IF outcome = "no model" THEN @ ELSE @ + 1,
                                !.prompt = IF outcome = "no model" THEN @
                                           ELSE PreviousPerspectives(wf.state)]
       IN IF wf.state.CurrentModelIndex < 0
          THEN /\ generated' = generated
               /\ wf' = [wf EXCEPT !.pc = "panic", !.err = IndexOutOfRange]
          ELSE /\ generated' = IF outcome = "no model" THEN generated
                               ELSE Append(generated,
                                           [kind |-> "consult", model |-> model.model,
                                            stance |-> model.stance])
               /\ wf' = IF outcome # "ok"
                        THEN [called EXCEPT !.pc = "returned", !.err = "UpstreamError"]
                        ELSE [called EXCEPT !.pc = "consulted", !.reply = Response(model),
                                            !.state.ModelResponses =
                                                Append(@, ModelResponseRecord(model))]
    /\ ret' = [Ret("Execute.consultModel", wf.thread) EXCEPT !.err = Failure(outcome)]
    /\ UNCHANGED <<maxTurns, ttlHours, now, threads, issued, appended, nAdded, goc, lockVars, libVars,
                   caller>>

\* Mutant: guidance that reports the index it was called with.
ConsensusSaveResponse_SameIndex ==
    /\ wf.pc = "consulted"
    /\ LET model == wf.state.Models[wf.state.CurrentModelIndex + 1]
           turn == ToolTurn(wf.tool, "assistant",
                            "[" \o model.model \o " - " \o model.stance \o " stance]\n"
                                \o wf.reply)
           nextIndex == wf.state.CurrentModelIndex + 1
           saved == [wf EXCEPT !.persisted = Persisted(wf.thread, turn)]
       IN /\ SaveTurn(wf.thread, turn)
          /\ wf' = IF nextIndex < Len(wf.state.Models)
                   THEN [saved EXCEPT
                            !.pc = "returned", !.result = "guidance",
                            !.report = buildResponse(<<wf.state.Models[nextIndex + 1].model>>,
                                                     wf.state.CurrentModelIndex)]
                   ELSE [saved EXCEPT !.pc = "synthesize"]
    /\ ret' = Ret("Execute.AddTurn", wf.thread)
    /\ UNCHANGED <<maxTurns, ttlHours, now, goc, lockVars, libVars, generated, caller>>

\* The response saved as an assistant turn; guidance when a participant is left.
ConsensusSaveResponse ==
    /\ wf.pc = "consulted"
    /\ LET model == wf.state.Models[wf.state.CurrentModelIndex + 1]
           turn == ToolTurn(wf.tool, "assistant",
                            "[" \o model.model \o " - " \o model.stance \o " stance]\n"
                                \o wf.reply)
           nextIndex == wf.state.CurrentModelIndex + 1
           saved == [wf EXCEPT !.persisted = Persisted(wf.thread, turn)]
       IN /\ SaveTurn(wf.thread, turn)
          /\ wf' = IF nextIndex < Len(wf.state.Models)
                   THEN [saved EXCEPT
                            !.pc = "returned", !.result = "guidance",
                            !.report = buildResponse(<<wf.state.Models[nextIndex + 1].model>>,
                                                     nextIndex)]
                   ELSE [saved EXCEPT !.pc = "synthesize"]
    /\ ret' = Ret("Execute.AddTurn", wf.thread)
    /\ UNCHANGED <<maxTurns, ttlHours, now, goc, lockVars, libVars, generated, caller>>

\* Mutant: a synthesis whose error is dropped, the empty reply saved.
ConsensusSynthesize_Swallow(outcome) ==
    /\ wf.tool = ConsensusToolName
    /\ \/ wf.pc = "synthesize"
       \/ wf.pc = "resolved" /\ wf.state.StepNumber # 1 /\ ~Consults
    /\ generated' = generated
    /\ wf' = [wf EXCEPT !.pc = "synthesized", !.reply = Synthesis]
    /\ ret' = [Ret("Execute.synthesize", wf.thread) EXCEPT !.err = Failure(outcome)]
    /\ UNCHANGED <<maxTurns, ttlHours, now, threads, issued, appended, nAdded, goc, lockVars, libVars,
                   caller>>

\* t.synthesize(ctx, state): the prompt holds state.ModelResponses.
ConsensusSynthesize(outcome) ==
    /\ wf.tool = ConsensusToolName
    /\ \/ wf.pc = "synthesize"
       \/ wf.pc = "resolved" /\ wf.state.StepNumber # 1 /\ ~Consults
    /\ generated' = IF outcome = "no model" THEN generated
                    ELSE Append(generated,
                                [kind |-> "synthesis",
                                 responses |-> wf.state.ModelResponses])
    /\ LET called == [wf EXCEPT !.gen = IF outcome = "no model" THEN @ ELSE @ + 1]
       IN wf' = IF outcome # "ok"
                THEN [called EXCEPT !.pc = "returned", !.err = "UpstreamError"]
                ELSE [called EXCEPT !.pc = "synthesized", !.reply = Synthesis]
    /\ ret' = [Ret("Execute.synthesize", wf.thread) EXCEPT !.err = Failure(outcome)]
    /\ UNCHANGED <<maxTurns, ttlHours, now, threads, issued, appended, nAdded, goc, lockVars, libVars,
                   caller>>

\* The synthesis saved as an assistant turn, and returned.
ConsensusSaveSynthesis ==
    /\ wf.pc = "synthesized"
    /\ LET turn == ToolTurn(wf.tool, "assistant", wf.reply)
       IN /\ SaveTurn(wf.thread, turn)
          /\ wf' = [wf EXCEPT !.pc = "returned", !.result = "final",
                              !.persisted = Persisted(wf.thread, turn)]
    /\ ret' = Ret("Execute.AddTurn", wf.thread)
    /\ UNCHANGED <<maxTurns, ttlHours, now, goc, lockVars, libVars, generated, caller>>

\* Execute returns.  On guidance the caller takes the continuation identifier
\* and the next index from it, and the response it shows, if any; an error or
\* the final result ends the session.
ConsensusReturn ==
    /\ wf.pc = "returned"
    /\ wf.tool = ConsensusToolName
    /\ wf' = WfIdle
    /\ caller' = IF wf.result # "guidance" THEN CallerIdle
                 ELSE IF wf.state.StepNumber = 1
                 THEN [caller EXCEPT !.cid = wf.thread, !.index = wf.report.index]
                 ELSE [caller EXCEPT
                          !.cid = wf.thread,
                          !.index = wf.report.index,
                          !.responses = wf.state.ModelResponses]
    /\ ret' = Ret("Execute.return", wf.thread)
    /\ UNCHANGED <<maxTurns, ttlHours, now, threads, issued, appended, nAdded, goc, lockVars, libVars,
                   generated>>

----------------------------------------------------------------------------
(* The store under its mutex *)

\* Concurrent tool calls reach the store from goroutines of their own; each
\* method of the store is here the steps it takes between taking m.mu and
\* releasing it.  The deferred Unlock runs when the method returns, so it is
\* part of the method's last step.  Which method took the lock shows in the
\* step the goroutine takes under it.

\* The goroutines that call the store.
Goroutines == {"g1", "g2"}

\* No goroutine.
NoGoroutine == ""

\* sync.RWMutex: the goroutine holding the write lock, those holding read locks.
MuFree == [writer |-> NoGoroutine, readers |-> {}]

\* A goroutine outside the store, holding no thread.
CallIdle ==
    [pc |-> "idle", id |-> EmptyId, thread |-> NilThread, unlinked |-> <<>>,
     read |-> <<>>]

\* Mutant: a write lock granted while readers hold the mutex.
MuLock_OverReaders(g) ==
    /\ calls[g].pc = "idle"
    /\ mu.writer = NoGoroutine
    /\ mu' = [mu EXCEPT !.writer = g]
    /\ calls' = [calls EXCEPT ![g] = [CallIdle EXCEPT !.pc = "locked"]]
    /\ UNCHANGED <<maxTurns, ttlHours, now, threads, issued, appended, nAdded, goc, ret,
                   toolVars, sweep, libVars>>

\* m.mu.Lock(): granted when no goroutine holds the mutex.
MuLock(g) ==
    /\ calls[g].pc = "idle"
    /\ mu = MuFree
    /\ mu' = [mu EXCEPT !.writer = g]
    /\ calls' = [calls EXCEPT ![g] = [CallIdle EXCEPT !.pc = "locked"]]
    /\ UNCHANGED <<maxTurns, ttlHours, now, threads, issued, appended, nAdded, goc, ret,
                   toolVars, sweep, libVars>>

\* m.mu.RLock(): granted when no goroutine holds the write lock.
MuRLock(g) ==
    /\ calls[g].pc = "idle"
    /\ mu.writer = NoGoroutine
    /\ mu' = [mu EXCEPT !.readers = @ \cup {g}]
    /\ calls' = [calls EXCEPT ![g] = [CallIdle EXCEPT !.pc = "rlocked"]]
    /\ UNCHANGED <<maxTurns, ttlHours, now, threads, issued, appended, nAdded, goc, ret,
                   toolVars, sweep, libVars>>

\* The deferred m.mu.Unlock() and m.mu.RUnlock().
MuUnlock(g) == [mu EXCEPT !.writer = NoGoroutine]

MuRUnlock(g) == [mu EXCEPT !.readers = @ \ {g}]

\* CreateThread, from the lock it holds to its return.
LockedCreateThread(g) ==
    /\ calls[g].pc = "locked"
    /\ \E id \in NewUUID : StoreThread(id, "chat")
    /\ mu' = MuUnlock(g)
    /\ calls' = [calls EXCEPT ![g] = CallIdle]
    /\ UNCHANGED <<maxTurns, ttlHours, now, nAdded, goc, ret, toolVars, sweep, libVars>>

\* AddTurn: the lookup and, on a thread found, the "enforce max turns" block.
LockedAddTurnTrim(g, threadID) ==
    /\ calls[g].pc = "locked"
    /\ nAdded < maxTurns + MaxOverflow
    /\ IF threadID \in DOMAIN threads
       THEN /\ threads' = [threads EXCEPT ![threadID].Turns = Trimmed(@)]
            /\ calls' = [calls EXCEPT ![g].pc = "append", ![g].id = threadID]
            /\ mu' = mu
       ELSE /\ threads' = threads
            /\ calls' = [calls EXCEPT ![g] = CallIdle]
            /\ mu' = MuUnlock(g)
    /\ UNCHANGED <<maxTurns, ttlHours, now, issued, appended, nAdded, goc, ret, toolVars, sweep, libVars>>

\* thread.Turns = append(thread.Turns, turn)
LockedAddTurnAppend(g) ==
    /\ calls[g].pc = "append"
    /\ LET threadID == calls[g].id
           turn == Stamped(TurnInput(nAdded))
       IN /\ threads' = [threads EXCEPT
                            ![threadID].Turns = Append(@, WithArray(turn, threadID))]
          /\ appended' = [appended EXCEPT ![threadID] = Append(@, turn)]
    /\ nAdded' = nAdded + 1
    /\ calls' = [calls EXCEPT ![g].pc = "refresh"]
    /\ UNCHANGED <<maxTurns, ttlHours, now, issued, goc, ret, toolVars, mu, sweep, libVars>>

\* thread.LastUpdatedAt = time.Now(), and the return.
LockedAddTurnRefresh(g) ==
    /\ calls[g].pc = "refresh"
    /\ threads' = [threads EXCEPT ![calls[g].id].LastUpdatedAt = now]
    /\ mu' = MuUnlock(g)
    /\ calls' = [calls EXCEPT ![g] = CallIdle]
    /\ UNCHANGED <<maxTurns, ttlHours, now, issued, appended, nAdded, goc, ret, toolVars, sweep, libVars>>

\* cleanup, from the lock it holds to its return.  A goroutine that holds the
\* pointer to a thread the sweep deletes keeps the ThreadContext, which no
\* store call reaches any more.
LockedCleanup(g) ==
    /\ calls[g].pc = "locked"
    /\ threads' = Restrict(threads, Survivors)
    /\ appended' = Restrict(appended, Survivors)
    /\ mu' = MuUnlock(g)
    /\ calls' = [h \in Goroutines |->
                    IF h = g THEN CallIdle
                    ELSE IF calls[h].thread \in DOMAIN threads \ Survivors
                    THEN [calls[h] EXCEPT !.unlinked = threads[calls[h].thread].Turns]
                    ELSE calls[h]]
    /\ wf' = Unlinked
    /\ UNCHANGED <<maxTurns, ttlHours, now, issued, nAdded, goc, ret, generated, caller,
                   sweep, libVars>>

\* Mutant: GetThread deleting the entry it reports absent, with >= for >.
LockedGetThread_DeleteGe(g, threadID) ==
    /\ calls[g].pc = "rlocked"
    /\ LET kept == IF threadID \in DOMAIN threads /\ IsExpired_Ge(threads[threadID])
                   THEN DOMAIN threads \ {threadID} ELSE DOMAIN threads
       IN /\ threads' = Restrict(threads, kept)
          /\ appended' = Restrict(appended, kept)
          /\ calls' = [calls EXCEPT ![g] =
                          IF threadID \in kept
                          THEN [CallIdle EXCEPT !.pc = "holds", !.thread = threadID]
                          ELSE [CallIdle EXCEPT !.id = threadID]]
    /\ mu' = MuRUnlock(g)
    /\ UNCHANGED <<maxTurns, ttlHours, now, issued, nAdded, goc, ret, toolVars, sweep, libVars>>

\* GetThread, from the read lock it holds to its return: it hands the live
\* *ThreadContext to its caller, or nil (the goroutine is then left with the
\* identifier it asked for).
LockedGetThread(g, threadID) ==
    /\ calls[g].pc = "rlocked"
    /\ LET thread == GetThreadResult(threadID)
       IN calls' = [calls EXCEPT ![g] =
                       IF thread # NilThread
                       THEN [CallIdle EXCEPT !.pc = "holds", !.thread = thread]
                       ELSE [CallIdle EXCEPT !.id = threadID]]
    /\ mu' = MuRUnlock(g)
    /\ UNCHANGED <<maxTurns, ttlHours, now, threads, issued, appended, nAdded, goc, ret,
                   toolVars, sweep, libVars>>

\* GetHistory, from the read lock it holds to its return.  GetFileList and
\* Stats take the same steps.
LockedGetHistory(g, threadID) ==
    /\ calls[g].pc = "rlocked"
    /\ calls' = [calls EXCEPT ![g] =
                    [CallIdle EXCEPT !.read = Values(GetHistoryResult(threadID))]]
    /\ mu' = MuRUnlock(g)
    /\ UNCHANGED <<maxTurns, ttlHours, now, threads, issued, appended, nAdded, goc, ret,
                   toolVars, sweep, libVars>>

\* The turns behind the pointer a goroutine holds.
TurnsOf(g) ==
    IF calls[g].thread \in DOMAIN threads THEN threads[calls[g].thread].Turns
    ELSE calls[g].unlinked

\* ConsolidateFindings(thread, ...), PlannerTool.gatherSteps(thread):
\* for _, turn := range thread.Turns, on the pointer GetThread returned, with
\* no lock held.
ConsolidateFindings(g) ==
    /\ calls[g].pc = "holds"
    /\ calls' = [calls EXCEPT ![g] = [CallIdle EXCEPT !.read = Values(TurnsOf(g))]]
    /\ UNCHANGED <<maxTurns, ttlHours, now, threads, issued, appended, nAdded, goc, ret,
                   toolVars, mu, sweep, libVars>>

----------------------------------------------------------------------------
(* The background sweep *)

\* go s.memory.StartCleanup(ctx): the loop at its select, the context live, no
\* tick waiting in ticker.C, cleanupDone open.
SweepInit == [pc |-> "select", ctx |-> "live", tick |-> FALSE, done |-> FALSE]

\* The ticker sends on ticker.C, a channel that holds one tick (a tick that
\* finds it full is dropped).  ticker.Stop() runs when the loop returns.
TickerFire ==
    /\ sweep.pc # "returned"
    /\ ~sweep.tick
    /\ sweep' = [sweep EXCEPT !.tick = TRUE]
    /\ ret' = Ret("ticker.C <-", EmptyId)
    /\ UNCHANGED <<maxTurns, ttlHours, now, threads, issued, appended, nAdded, goc,
                   toolVars, mu, calls, libVars>>

\* cancel(): the shutdown signal, or main returning.
Cancel ==
    /\ sweep.ctx = "live"
    /\ sweep' = [sweep EXCEPT !.ctx = "cancelled"]
    /\ ret' = Ret("cancel", EmptyId)
    /\ UNCHANGED <<maxTurns, ttlHours, now, threads, issued, appended, nAdded, goc,
                   toolVars, mu, calls, libVars>>

\* select { case <-ctx.Done(): ...; case <-ticker.C: ... }: one of the cases
\* that can proceed, whichever.
SweepSelect ==
    /\ sweep.pc = "select"
    /\ \/ /\ sweep.ctx = "cancelled"
          /\ sweep' = [sweep EXCEPT !.pc = "returned", !.done = TRUE]
          /\ ret' = Ret("StartCleanup.return", EmptyId)
       \/ /\ sweep.tick
          /\ sweep' = [sweep EXCEPT !.pc = "cleanup", !.tick = FALSE]
          /\ ret' = Ret("StartCleanup.tick", EmptyId)
    /\ UNCHANGED <<maxTurns, ttlHours, now, threads, issued, appended, nAdded, goc,
                   toolVars, mu, calls, libVars>>

\* m.cleanup(), then back to the select.
SweepCleanup ==
    /\ sweep.pc = "cleanup"
    /\ threads' = Restrict(threads, Survivors)
    /\ appended' = Restrict(appended, Survivors)
    /\ sweep' = [sweep EXCEPT !.pc = "select"]
    /\ wf' = Unlinked
    /\ ret' = Ret("cleanup", EmptyId)
    /\ UNCHANGED <<maxTurns, ttlHours, now, issued, nAdded, goc, generated, caller, mu,
                   calls, libVars>>

----------------------------------------------------------------------------
(* The chat tool called by concurrent goroutines *)

\* The prompt of the chat request each goroutine serves, and the content the
\* provider answers a prompt with.
ChatPrompt == [g \in Goroutines |-> "prompt of " \o g]
ChatReply(prompt) == "reply to " \o prompt

\* The turn BaseTool.AddTurn builds: t.name as its tool tag, no timestamp.
ChatTurn(role, content) ==
    [Role |-> role, Content |-> content, Timestamp |-> ZeroTime,
     Files |-> <<>>, Images |-> <<>>, ToolName |-> "chat"]

\* The turns the chat calls in flight have still to save.
Owed(g) == IF calls[g].pc = "user" THEN 2 ELSE IF calls[g].pc = "assistant" THEN 1 ELSE 0

RECURSIVE OwedBy(_)
OwedBy(S) ==
    IF S = {} THEN 0
    ELSE LET g == CHOOSE h \in S : TRUE IN Owed(g) + OwedBy(S \ {g})

\* ChatTool.Execute up to "Save turns": GetOrCreateThread, ResolveModel,
\* GetHistory and GenerateContent.  An error returns before any turn is saved.
ChatGenerate(g, continuationID, outcome) ==
    /\ calls[g].pc = "idle"
    /\ nAdded + OwedBy(Goroutines) < maxTurns + MaxOverflow
    /\ Len(generated) < maxTurns + MaxOverflow
    /\ LET found == IF continuationID = EmptyId THEN NilThread
                    ELSE GetThreadResult(continuationID)
       IN \E id \in IF found # NilThread THEN {found} ELSE NewUUID :
             /\ IF found # NilThread
                THEN UNCHANGED <<threads, issued, appended>>
                ELSE StoreThread(id, "chat")
             /\ generated' =
                    IF outcome = "no model" THEN generated
                    ELSE Append(generated,
                                [kind |-> "chat", tool |-> "chat",
                                 context |-> IF found # NilThread
                                             THEN TagsOf(GetHistoryResult(id)) ELSE <<>>])
             /\ calls' = [calls EXCEPT ![g] =
                             IF outcome = "ok"
                             THEN [CallIdle EXCEPT !.pc = "user", !.id = id]
                             ELSE CallIdle]
             /\ ret' = [Ret("chat.Execute.GenerateContent", id) EXCEPT
                          !.err = Failure(outcome)]
    /\ UNCHANGED <<maxTurns, ttlHours, now, nAdded, goc, wf, caller, mu, sweep, libVars>>

\* BaseTool.AddTurn: _ = t.memory.AddTurn(threadID, turn), the store's
\* method from its Lock to its Unlock, its error dropped.
ChatAddTurn(threadID, turn) ==
    IF threadID \in DOMAIN threads /\ ~TrimPanics(threads[threadID].Turns)
    THEN AppendTurn(threadID, turn)
    ELSE UNCHANGED <<threads, appended, nAdded>>

\* A panic of the store's AddTurn passes through BaseTool.AddTurn and Execute.
ChatPanics(threadID) ==
    threadID \in DOMAIN threads /\ TrimPanics(threads[threadID].Turns)

\* t.AddTurn(thread.ThreadID, "user", prompt, filePaths, images)
ChatSaveUser(g) ==
    /\ calls[g].pc = "user"
    /\ ChatAddTurn(calls[g].id, ChatTurn("user", ChatPrompt[g]))
    /\ calls' = [calls EXCEPT ![g].pc =
                    IF ChatPanics(calls[g].id) THEN "panic" ELSE "assistant"]
    /\ ret' = [Ret("chat.Execute.AddTurn", calls[g].id) EXCEPT
                 !.err = IF ChatPanics(calls[g].id) THEN SliceOutOfRange ELSE ""]
    /\ UNCHANGED <<maxTurns, ttlHours, now, issued, goc, toolVars, mu, sweep, libVars>>

\* t.AddTurn(thread.ThreadID, "assistant", resp.Content, nil, nil), and the
\* return of the result.
ChatSaveAssistant(g) ==
    /\ calls[g].pc = "assistant"
    /\ ChatAddTurn(calls[g].id, ChatTurn("assistant", ChatReply(ChatPrompt[g])))
    /\ calls' = [calls EXCEPT ![g] =
                    IF ChatPanics(calls[g].id) THEN [@ EXCEPT !.pc = "panic"]
                    ELSE CallIdle]
    /\ ret' = [Ret("chat.Execute", calls[g].id) EXCEPT
                 !.err = IF ChatPanics(calls[g].id) THEN SliceOutOfRange ELSE ""]
    /\ UNCHANGED <<maxTurns, ttlHours, now, issued, goc, toolVars, mu, sweep, libVars>>

----------------------------------------------------------------------------
(* The provider registry *)

\* No Registry yet.
NoRegistry == [pc |-> "none"]

\* The head of ProviderPriority: the order SelectBestModel visits the
\* providers in.
ProviderPriority == <<"gemini", "openai">>

\* cfg.ModelRegistries[pt]: the models a provider is configured with, here
\* model name -> IntelligenceScore, over at most two names and two scores,
\* one of them under the threshold the synthesis asks for.
ModelNames == {"a", "b"}
IntelligenceScores == {70, 90}

ModelRegistries ==
    UNION {[names -> IntelligenceScores] : names \in (SUBSET ModelNames) \ {{}}}

\* The providers Initialize can set up: any of the two, each with its models.
Configurations ==
    UNION {[pts -> ModelRegistries] :
              pts \in SUBSET {ProviderPriority[i] : i \in 1..Len(ProviderPriority)}}

\* ModelRequirements: the synthesis asks for MinIntelligence 80 and nothing
\* else; the zero value asks for nothing.
Requirements == {[MinIntelligence |-> 80], [MinIntelligence |-> 0]}

\* Registry.Initialize over a configuration.
Initialize(cfg) ==
    /\ registry.pc = "none"
    /\ registry' = [pc |-> "ready", providers |-> cfg, selected |-> <<>>]
    /\ ret' = Ret("Initialize", EmptyId)
    /\ UNCHANGED <<maxTurns, ttlHours, now, threads, issued, appended, nAdded, goc,
                   toolVars, lockVars, builder>>

\* The orders a range over a Go map of these keys can produce.
Orders(keys) ==
    {order \in [1..Cardinality(keys) -> keys] :
        \A i, j \in 1..Cardinality(keys) : i # j => order[i] # order[j]}

meetsRequirements(m, requirements) == m.IntelligenceScore >= requirements.MinIntelligence

\* if bestModel == nil || m.IntelligenceScore > bestModel.IntelligenceScore
Better(m, bestModel) ==
    bestModel.ModelName = "" \/ m.IntelligenceScore > bestModel.IntelligenceScore

\* bestModel == nil
NoModel == [ModelName |-> "", IntelligenceScore |-> 0, Provider |-> ""]

\* The inner loop of SelectBestModel over p.ListModels() in one order.
RECURSIVE ScanModels(_, _, _, _, _)
ScanModels(pt, models, order, requirements, bestModel) ==
    IF order = <<>> THEN bestModel
    ELSE LET m == [ModelName |-> Head(order), IntelligenceScore |-> models[Head(order)],
                   Provider |-> pt]
         IN ScanModels(pt, models, Tail(order), requirements,
                       IF meetsRequirements(m, requirements) /\ Better(m, bestModel)
                       THEN m ELSE bestModel)

\* The outer loop over ProviderPriority, from its i-th entry on; orders[pt]
\* is the order ListModels returned the models of provider pt in.
RECURSIVE ScanProviders(_, _, _, _, _)
ScanProviders(providers, orders, i, requirements, bestModel) ==
    IF i > Len(ProviderPriority) THEN bestModel
    ELSE LET pt == ProviderPriority[i]
         IN ScanProviders(providers, orders, i + 1, requirements,
                          IF pt \in DOMAIN providers
                          THEN ScanModels(pt, providers[pt], orders[pt], requirements,
                                          bestModel)
                          ELSE bestModel)

\* SelectBestModel(requirements): ListModels ranges over the map p.models,
\* so each call sees the models of a provider in an order of its own.
SelectBestModel(requirements) ==
    /\ registry.pc = "ready"
    /\ Len(registry.selected) < 2
    /\ \E orders \in [DOMAIN registry.providers ->
                          UNION {Orders(names) : names \in SUBSET ModelNames}] :
          /\ \A pt \in DOMAIN registry.providers :
                orders[pt] \in Orders(DOMAIN registry.providers[pt])
          /\ LET bestModel == ScanProviders(registry.providers, orders, 1, requirements,
                                            NoModel)
             IN /\ registry' = [registry EXCEPT
                                  !.selected = Append(@, [requirements |-> requirements,
                                                          model |-> bestModel])]
                /\ ret' = [Ret("SelectBestModel", EmptyId) EXCEPT
                              !.err = IF bestModel = NoModel
                                      THEN "no model meets requirements" ELSE ""]
    /\ UNCHANGED <<maxTurns, ttlHours, now, threads, issued, appended, nAdded, goc,
                   toolVars, lockVars, builder>>

----------------------------------------------------------------------------
(* The thread builder *)

\* No ThreadBuilder yet.
NoBuilder == [pc |-> "none"]

\* The turn contents of the builder's thread (those of
\* TestThreadBuilder_BuildConversationHistory), and len(content) of each.
BuilderContents == {"Hello", "Hi there!", "How are you?"}
ByteLen == [content \in BuilderContents |->
               IF content = "Hello" THEN 5 ELSE IF content = "Hi there!" THEN 9 ELSE 12]

\* The threads a builder is made over: up to three turns.
BuilderThreads == UNION {[1..n -> [Content : BuilderContents]] : n \in 0..3}

\* The token budgets a builder is made with.
MaxTokensValues == 0..6

\* Rough estimate: 4 characters per token.
estimateTokens(content) == ByteLen[content] \div 4

\* NewThreadBuilder(thread, maxTokens): tokenCount starts at its zero value.
NewThreadBuilder(turns, maxTokens) ==
    /\ builder.pc = "none"
    /\ builder' = [pc |-> "built", Turns |-> turns, maxTokens |-> maxTokens,
                   tokenCount |-> 0, history |-> <<>>, built |-> 0]
    /\ ret' = Ret("NewThreadBuilder", EmptyId)
    /\ UNCHANGED <<maxTurns, ttlHours, now, threads, issued, appended, nAdded, goc,
                   toolVars, lockVars, registry>>

\* The loop of BuildConversationHistory from index i down: b.tokenCount and
\* selected when it ends.
RECURSIVE SelectTurns(_, _, _, _, _)
SelectTurns(turns, i, maxTokens, tokenCount, selected) ==
    IF i < 1 THEN [tokenCount |-> tokenCount, selected |-> selected]
    ELSE LET turnTokens == estimateTokens(turns[i].Content)
         IN IF tokenCount + turnTokens > maxTokens
            THEN [tokenCount |-> tokenCount, selected |-> selected]
            ELSE SelectTurns(turns, i - 1, maxTokens, tokenCount + turnTokens,
                             <<turns[i]>> \o selected)

\* BuildConversationHistory on the builder, a first or a second time.
BuildConversationHistory ==
    /\ builder.pc = "built"
    /\ builder.built < 2
    /\ LET end == SelectTurns(builder.Turns, Len(builder.Turns), builder.maxTokens,
                              builder.tokenCount, <<>>)
       IN builder' = [builder EXCEPT !.tokenCount = end.tokenCount,
                                     !.history = end.selected,
                                     !.built = @ + 1]
    /\ ret' = Ret("BuildConversationHistory", EmptyId)
    /\ UNCHANGED <<maxTurns, ttlHours, now, threads, issued, appended, nAdded, goc,
                   toolVars, lockVars, registry>>

----------------------------------------------------------------------------
(* The specifications *)

Init ==
    /\ maxTurns \in MaxTurnsValues
    /\ ttlHours \in TtlHoursValues
    /\ now = StartTime
    /\ threads = << >>
    /\ issued = {}
    /\ appended = << >>
    /\ nAdded = 0
    /\ goc = GocIdle
    /\ ret = Ret("New", EmptyId)
    /\ wf = WfIdle
    /\ generated = <<>>
    /\ caller = CallerIdle
    /\ mu = MuFree
    /\ calls = [g \in Goroutines |-> CallIdle]
    /\ sweep = SweepInit
    /\ registry = NoRegistry
    /\ builder = NoBuilder

\* The calls that change the store, and the clock.
Mutation ==
    \/ \E toolName \in ToolNames : CreateThread(toolName)
    \/ \E threadID \in StoreIds, turn \in TurnInputs : AddTurn(threadID, turn)
    \/ cleanup
    \/ Tick

\* The thread store under any sequence of calls.  The read-only calls change
\* nothing but ret, so the stores reached are the same whichever of them a
\* specification includes; each specification includes the ones its
\* properties are about.
Next ==
    \/ Mutation
    \/ \E threadID \in StoreIds : GetThread(threadID)
    \/ \E threadID \in StoreIds : GetHistory(threadID)

Spec == Init /\ [][Next]_vars

NextReads ==
    \/ Mutation
    \/ \E threadID \in StoreIds : GetHistory(threadID)
    \/ \E threadID \in StoreIds : GetFileList(threadID)
    \/ Stats

SpecReads == Init /\ [][NextReads]_vars

\* The calls that take a thread identifier, beside the other mutations.  What a
\* call does to the other threads does not depend on the turn limit, so one
\* limit is explored.
InitFrame == Init /\ maxTurns = 1

NextFrame ==
    \/ Mutation
    \/ \E threadID \in StoreIds : GetThread(threadID)
    \/ \E threadID \in StoreIds : GetHistory(threadID)
    \/ \E threadID \in StoreIds : GetFileList(threadID)

SpecFrame == InitFrame /\ [][NextFrame]_vars

\* The sweep goroutine beside calls that fill the store.
InitSweep == Init /\ maxTurns = 1 /\ ttlHours = 0

NextSweep ==
    \/ TickerFire
    \/ Cancel
    \/ SweepSelect
    \/ SweepCleanup
    \/ \E toolName \in ToolNames : CreateThread(toolName)
    \/ \E threadID \in StoreIds, turn \in TurnInputs : AddTurn(threadID, turn)
    \/ Tick

SpecSweep == InitSweep /\ [][NextSweep]_vars

\* A tool resolving its thread while other calls change the store.  Thread
\* resolution reads no turn, so one turn limit is explored.
InitTools == Init /\ maxTurns = 1

NextTools ==
    \/ Mutation
    \/ GetOrCreateThread

SpecTools == InitTools /\ [][NextTools]_vars

\* A caller that writes into the histories it reads.
NextCaller ==
    \/ \E toolName \in ToolNames : CreateThread(toolName)
    \/ \E threadID \in StoreIds, turn \in TurnInputs : AddTurn(threadID, turn)
    \/ \E threadID \in StoreIds : GetHistory(threadID)
    \/ \E i \in 1..maxTurns : SetTurn(i)
    \/ \E i \in 1..maxTurns : SetContent(i)
    \/ \E i \in 1..maxTurns, j \in 1..2 : SetFile(i, j)
    \/ \E i \in 1..maxTurns, j \in 1..2 : SetImage(i, j)

SpecCaller == Init /\ [][NextCaller]_vars

\* Goroutines calling the store concurrently, each method step by step.
InitLocks == Init /\ maxTurns = 1 /\ ttlHours = 0

NextLocks ==
    \/ \E g \in Goroutines : MuLock(g)
    \/ \E g \in Goroutines : MuRLock(g)
    \/ \E g \in Goroutines : LockedCreateThread(g)
    \/ \E g \in Goroutines, threadID \in StoreIds : LockedAddTurnTrim(g, threadID)
    \/ \E g \in Goroutines : LockedAddTurnAppend(g)
    \/ \E g \in Goroutines : LockedAddTurnRefresh(g)
    \/ \E g \in Goroutines : LockedCleanup(g)
    \/ \E g \in Goroutines, threadID \in StoreIds : LockedGetThread(g, threadID)
    \/ \E g \in Goroutines, threadID \in StoreIds : LockedGetHistory(g, threadID)
    \/ \E g \in Goroutines : ConsolidateFindings(g)
    \/ Tick

SpecLocks == InitLocks /\ [][NextLocks]_vars

\* The workflow tools called one call after the other.
InitWorkflow == Init /\ maxTurns = 2

NextWorkflow ==
    \/ \E tool \in WorkflowTools, args \in WorkflowPayloads : ExecuteParse(tool, args)
    \/ ExecuteResolve
    \/ ExecuteCreate
    \/ ExecuteSaveStep
    \/ \E outcome \in Outcomes : ExecuteCallExpertModel(outcome)
    \/ ExecuteSaveReply
    \/ ExecuteReturn

SpecWorkflow == InitWorkflow /\ [][NextWorkflow]_vars

\* One caller driving the consensus tool: a proposal, then one call after the
\* other with what the last call returned.  Proposals are made until one of
\* them has stored a turn; sessions on threads that hold turns of earlier
\* ones are those of SpecUpstream.
InitConsensus ==
    /\ maxTurns = 3
    /\ ttlHours = 1
    /\ now = StartTime
    /\ threads = << >>
    /\ issued = {}
    /\ appended = << >>
    /\ nAdded = 0
    /\ goc = GocIdle
    /\ ret = Ret("New", EmptyId)
    /\ wf = WfIdle
    /\ generated = <<>>
    /\ caller = CallerIdle
    /\ mu = MuFree
    /\ calls = [g \in Goroutines |-> CallIdle]
    /\ sweep = SweepInit
    /\ registry = NoRegistry
    /\ builder = NoBuilder

NextConsensus ==
    \/ \E models \in ModelLists, continuationID \in ContinuationIds :
          nAdded = 0 /\ ConsensusStart(models, continuationID)
    \/ \E nextStepRequired \in BOOLEAN : ConsensusContinue(nextStepRequired)
    \/ ExecuteResolve
    \/ ExecuteCreate
    \/ ConsensusStep1
    \/ \E outcome \in Outcomes : ConsensusConsult(outcome)
    \/ ConsensusSaveResponse
    \/ \E outcome \in Outcomes : ConsensusSynthesize(outcome)
    \/ ConsensusSaveSynthesis
    \/ ConsensusReturn

SpecConsensus == InitConsensus /\ [][NextConsensus]_vars

\* The participant lists of a well-formed proposal.
Panels ==
    {<<[model |-> "A", stance |-> "for"], [model |-> "B", stance |-> "for"]>>,
     <<[model |-> "A", stance |-> "for"], [model |-> "A", stance |-> "against"]>>}

\* A finalizing payload: next_step_required and use_assistant_model absent.
FinalPayload(continuationID) ==
    [step |-> "s", findings |-> FindingsTexts[nAdded + 1],
     continuation_id |-> continuationID]

\* Every call that reaches a provider: the finalizing calls of the workflow
\* tools, and consensus sessions over well-formed proposals.
NextUpstream ==
    \/ \E tool \in WorkflowTools, continuationID \in ContinuationIds :
          ExecuteParse(tool, FinalPayload(continuationID))
    \/ ExecuteSaveStep
    \/ \E outcome \in Outcomes : ExecuteCallExpertModel(outcome)
    \/ ExecuteSaveReply
    \/ ExecuteReturn
    \/ \E models \in Panels, continuationID \in ContinuationIds :
          ConsensusStart(models, continuationID)
    \/ \E nextStepRequired \in BOOLEAN : ConsensusContinue(nextStepRequired)
    \/ ExecuteResolve
    \/ ExecuteCreate
    \/ ConsensusStep1
    \/ \E outcome \in Outcomes : ConsensusConsult(outcome)
    \/ ConsensusSaveResponse
    \/ \E outcome \in Outcomes : ConsensusSynthesize(outcome)
    \/ ConsensusSaveSynthesis
    \/ ConsensusReturn

SpecUpstream == InitConsensus /\ [][NextUpstream]_vars

\* The payloads of a caller that keeps to no protocol: any step number, any
\* index (below zero and past the end included), lists with entries that
\* name no model.
PayloadLists ==
    {<<>>,
     <<[model |-> "A", stance |-> "for"], [model |-> "A", stance |-> "for"]>>,
     <<[model |-> "A", stance |-> "for"], [model |-> "B", stance |-> "for"]>>,
     <<[model |-> "", stance |-> "for"], [model |-> "A", stance |-> "for"],
       [model |-> "B", stance |-> "for"]>>,
     <<[model |-> "A", stance |-> "for"], [model |-> "B", stance |-> "for"],
       [model |-> "A", stance |-> "against"]>>}

PayloadIndexes == -1 .. 3

PayloadResponses == {<<>>, <<ModelResponseRecord([model |-> "A", stance |-> "for"])>>}

InitPayloads == Init /\ maxTurns = 2 /\ ttlHours = 1

NextPayloads ==
    \/ \E stepNumber \in 1..2, nextStepRequired \in BOOLEAN, models \in PayloadLists,
          index \in PayloadIndexes, responses \in PayloadResponses,
          continuationID \in ContinuationIds :
          ConsensusCall(stepNumber, nextStepRequired, models, index, responses,
                        continuationID)
    \/ ExecuteResolve
    \/ ExecuteCreate
    \/ ConsensusStep1
    \/ \E outcome \in Outcomes : ConsensusConsult(outcome)
    \/ ConsensusSaveResponse
    \/ \E outcome \in Outcomes : ConsensusSynthesize(outcome)
    \/ ConsensusSaveSynthesis
    \/ ConsensusReturn

SpecPayloads == InitPayloads /\ [][NextPayloads]_vars

\* Investigations with the expert at the end: steps of debug and analyze
\* with findings, on a new thread or an earlier one.
InvestigationPayloads ==
    {s @@ f @@ n @@ c :
        s \in {[k \in {"step"} |-> step] : step \in StepTexts},
        f \in {[k \in {"findings"} |-> FindingsTexts[nAdded + 1]]},
        n \in OptionalArg("next_step_required", {TRUE}),
        c \in {[k \in {"continuation_id"} |-> id] : id \in ContinuationIds}}

NextFindings ==
    \/ \E tool \in {"debug", "analyze"}, args \in InvestigationPayloads :
          ExecuteParse(tool, args)
    \/ ExecuteResolve
    \/ ExecuteCreate
    \/ ExecuteSaveStep
    \/ \E outcome \in Outcomes : ExecuteCallExpertModel(outcome)
    \/ ExecuteSaveReply
    \/ ExecuteReturn

SpecFindings == InitWorkflow /\ [][NextFindings]_vars

\* Texts of 100 and of 500 characters.
Hundred ==
    "0123456789012345678901234567890123456789012345678901234567890123456789"
        \o "012345678901234567890123456789"
FiveHundred == Hundred \o Hundred \o Hundred \o Hundred \o Hundred

\* The responses a consultation payload carries: of a few characters, of
\* exactly 500, and of 501.
ResponseTexts == {"A argues for", FiveHundred, FiveHundred \o "!"}

PromptResponses ==
    UNION {[1..n -> [model : {"A"}, stance : {"for"}, response : ResponseTexts]] :
              n \in 0..2}

\* Consultations of a participant with earlier responses in the payload.
NextPrompt ==
    \/ \E models \in Panels, index \in 0..1, responses \in PromptResponses,
          continuationID \in ContinuationIds :
          ConsensusCall(2, TRUE, models, index, responses, continuationID)
    \/ ExecuteResolve
    \/ ExecuteCreate
    \/ \E outcome \in Outcomes : ConsensusConsult(outcome)
    \/ ConsensusSaveResponse
    \/ \E outcome \in Outcomes : ConsensusSynthesize(outcome)
    \/ ConsensusSaveSynthesis
    \/ ConsensusReturn

SpecPrompt == InitPayloads /\ [][NextPrompt]_vars

\* Stores constructed with whatever MAX_CONVERSATION_TURNS holds: New takes
\* the value as it is.
ConfiguredMaxTurns == {-1, 0, 1}

InitConfig ==
    /\ maxTurns \in ConfiguredMaxTurns
    /\ ttlHours = 1
    /\ now = StartTime
    /\ threads = << >>
    /\ issued = {}
    /\ appended = << >>
    /\ nAdded = 0
    /\ goc = GocIdle
    /\ ret = Ret("New", EmptyId)
    /\ wf = WfIdle
    /\ generated = <<>>
    /\ caller = CallerIdle
    /\ mu = MuFree
    /\ calls = [g \in Goroutines |-> CallIdle]
    /\ sweep = SweepInit
    /\ registry = NoRegistry
    /\ builder = NoBuilder

SpecConfig == InitConfig /\ [][Next]_vars

\* A registry set up once, and two selections.
InitSelect == Init /\ maxTurns = 1 /\ ttlHours = 0

NextSelect ==
    \/ \E cfg \in Configurations : Initialize(cfg)
    \/ \E requirements \in Requirements : SelectBestModel(requirements)

SpecSelect == InitSelect /\ [][NextSelect]_vars

\* A builder made once, and its history built twice.
InitBuilder == Init /\ maxTurns = 1 /\ ttlHours = 0

NextBuilder ==
    \/ \E turns \in BuilderThreads, maxTokens \in MaxTokensValues :
          NewThreadBuilder(turns, maxTokens)
    \/ BuildConversationHistory

SpecBuilder == InitBuilder /\ [][NextBuilder]_vars

\* Finalizing calls of the workflow tools while time passes and the sweep runs.
InitExpiry == Init /\ maxTurns = 2 /\ ttlHours = 0

NextExpiry ==
    \/ \E tool \in WorkflowTools, continuationID \in ContinuationIds :
          ExecuteParse(tool, FinalPayload(continuationID))
    \/ ExecuteResolve
    \/ ExecuteCreate
    \/ ExecuteSaveStep
    \/ \E outcome \in Outcomes : ExecuteCallExpertModel(outcome)
    \/ ExecuteSaveReply
    \/ ExecuteReturn
    \/ cleanup
    \/ Tick

SpecExpiry == InitExpiry /\ [][NextExpiry]_vars

\* Chat requests served by concurrent goroutines, each Execute step by step.
InitChat == Init /\ maxTurns = 2 /\ ttlHours = 1

NextChat ==
    \/ \E g \in Goroutines, continuationID \in ContinuationIds, outcome \in Outcomes :
          ChatGenerate(g, continuationID, outcome)
    \/ \E g \in Goroutines : ChatSaveUser(g)
    \/ \E g \in Goroutines : ChatSaveAssistant(g)
    \/ Tick

SpecChat == InitChat /\ [][NextChat]_vars

----------------------------------------------------------------------------
(* Properties *)

Present(id) == id \in DOMAIN threads

\* The last n elements of s (all of s when it is shorter).
LastN(s, n) == IF Len(s) <= n THEN s ELSE SubSeq(s, Len(s) - n + 1, Len(s))

\* C1: every stored thread holds at most maxTurns turns (maxTurns >= 1).
Thm_C1 == \A id \in DOMAIN threads : Len(threads[id].Turns) <= maxTurns

Wit_C1 ==
    \E id \in DOMAIN threads :
        /\ Len(appended[id]) > maxTurns
        /\ Len(threads[id].Turns) = maxTurns

\* C2: once more than maxTurns turns were appended to a thread, GetHistory
\* returns exactly maxTurns turns: the last maxTurns appended, in append order.
Thm_C2 ==
    (ret.op = "GetHistory" /\ Present(ret.id) /\ Len(appended[ret.id]) > maxTurns)
        => /\ Len(ret.history) = maxTurns
           /\ Values(ret.history) = LastN(appended[ret.id], maxTurns)

Wit_C2 ==
    /\ ret.op = "GetHistory" /\ Present(ret.id)
    /\ maxTurns = 2
    /\ Len(appended[ret.id]) = maxTurns + 1
    /\ Len(ret.history) = maxTurns

\* C3: while at most maxTurns turns were appended to a thread, GetHistory
\* returns exactly the turns appended, once each, in append order.
Thm_C3 ==
    (ret.op = "GetHistory" /\ Present(ret.id) /\ Len(appended[ret.id]) <= maxTurns)
        => Values(ret.history) = appended[ret.id]

Wit_C3 ==
    /\ ret.op = "GetHistory" /\ Present(ret.id)
    /\ Len(appended[ret.id]) = 2
    /\ Len(ret.history) = 2

\* C4: GetThread on a thread that is stored but expired returns nil and
\* removes the entry in that same call, so that Stats reports a ThreadCount
\* one lower than before the call.
Cex_C4 ==
    [][(ret'.op = "GetThread" /\ Present(ret'.id) /\ IsExpired(threads[ret'.id]))
          => /\ ret'.thread = NilThread
             /\ ret'.id \notin DOMAIN threads'
             /\ StatsResult.ThreadCount' = StatsResult.ThreadCount - 1]_vars

\* C5: GetThread(id) returns the thread if and only if id is stored and
\* now - LastUpdatedAt <= ttl, and a call that returns the thread leaves the
\* store unchanged.
Thm_C5 ==
    [][ret'.op = "GetThread"
          => /\ (ret'.thread # NilThread) <=>
                   (Present(ret'.id) /\ now - threads[ret'.id].LastUpdatedAt <= ttlHours)
             /\ ret'.thread # NilThread => (ret'.thread = ret'.id /\ threads' = threads)]_vars

Wit_C5 ==
    /\ ret.op = "GetThread" /\ ret.thread # NilThread
    /\ now > threads[ret.id].LastUpdatedAt
    /\ now - threads[ret.id].LastUpdatedAt = ttlHours

\* C6: AddTurn on an identifier that is not stored returns ErrThreadNotFound
\* (and only then) and leaves the whole store unchanged.
Thm_C6 ==
    [][ret'.op = "AddTurn"
          => /\ (ret'.err = "ErrThreadNotFound") <=> ~Present(ret'.id)
             /\ ~Present(ret'.id) => threads' = threads]_vars

Wit_C6 ==
    /\ ret.op = "AddTurn" /\ ret.err = "ErrThreadNotFound"
    /\ ret.id \in issued
    /\ threads # << >>

\* C7: GetHistory and GetFileList on an identifier whose thread is expired
\* return an empty result, as for an unknown identifier, also while the
\* expired entry has not been swept.
Cex_C7 ==
    (ret.op \in {"GetHistory", "GetFileList"} /\ Present(ret.id)
        /\ IsExpired(threads[ret.id]))
        => (ret.history = <<>> /\ ret.files = <<>>)

\* C8: no write a caller makes through the value GetHistory returned changes
\* what a later GetHistory returns, for any thread.
Cex_C8 ==
    [][ret'.op \in CallerWrites
          => \A id \in DOMAIN threads :
                Values(GetHistoryResult(id))' = Values(GetHistoryResult(id))]_vars

\* C9: GetOrCreateThread returns the existing thread (same identifier, no new
\* entry) exactly when its GetThread finds the identifier stored and not
\* expired; otherwise (empty, unknown or expired identifier) it creates a
\* thread under an identifier that differs from the one supplied and from
\* every identifier issued before.
Thm_C9 ==
    [][/\ (ret'.op = "GetOrCreateThread" /\ ret'.isExisting)
            => /\ Present(ret'.id) /\ ~IsExpired(threads[ret'.id])
               /\ ret'.thread = ret'.id
               /\ threads' = threads /\ issued' = issued
       /\ ret'.op = "GetOrCreateThread.GetThread"
            => ~(Present(ret'.id) /\ ~IsExpired(threads[ret'.id]))
       /\ (ret'.op = "GetOrCreateThread" /\ ~ret'.isExisting)
            => /\ ret'.id = EmptyId \/ (goc.pc = "create" /\ goc.cid = ret'.id)
               /\ ret'.thread \notin issued
               /\ ret'.thread # ret'.id
               /\ DOMAIN threads' = DOMAIN threads \cup {ret'.thread}
               /\ ret'.thread \notin DOMAIN threads]_vars

Wit_C9 ==
    /\ ret.op = "GetOrCreateThread" /\ ~ret.isExisting
    /\ Present(ret.id) /\ IsExpired(threads[ret.id])
    /\ Present(ret.thread)

\* C10: every CreateThread yields an identifier distinct from those of all
\* earlier calls, overwrites no stored entry, and increases the number of
\* stored threads by exactly one.
Thm_C10 ==
    [][ret'.op = "CreateThread"
          => /\ ret'.thread \notin issued
             /\ ret'.thread \notin DOMAIN threads
             /\ DOMAIN threads' = DOMAIN threads \cup {ret'.thread}
             /\ StatsResult.ThreadCount' = StatsResult.ThreadCount + 1
             /\ \A id \in DOMAIN threads : threads'[id] = threads[id]]_vars

Wit_C10 ==
    /\ ret.op = "CreateThread"
    /\ Cardinality(issued) = 2
    /\ Cardinality(DOMAIN threads) = 1

\* C11: AddTurn stores the new turn's role, content and tool tag as given and
\* changes those of no turn already in the thread (the turns it keeps are the
\* most recent ones, untouched, and no other thread changes); after every
\* step the stored turns carry, in append order, the tags they were appended
\* with.
Thm_C11 ==
    [][/\ (ret'.op = "AddTurn" /\ Present(ret'.id))
            => LET old == threads[ret'.id].Turns
                   new == threads'[ret'.id].Turns
               IN /\ Tags(new[Len(new)]) = Tags(TurnInput(nAdded))
                  /\ TagsOf(SubSeq(new, 1, Len(new) - 1)) = TagsOf(LastN(old, Len(new) - 1))
                  /\ \A id \in DOMAIN threads \ {ret'.id} : threads'[id] = threads[id]
       /\ \A id \in DOMAIN threads' :
             TagsOf(threads'[id].Turns)
                = LastN(TagsOf(appended'[id]), Len(threads'[id].Turns))]_vars

Wit_C11 ==
    /\ ret.op = "AddTurn" /\ Present(ret.id)
    /\ Len(threads[ret.id].Turns) = 2
    /\ threads[ret.id].Turns[1].ToolName = "chat"
    /\ threads[ret.id].Turns[2].ToolName = "debug"
    /\ threads[ret.id].Turns[1].Content = "Turn 0"

\* C12: LastUpdatedAt of a stored thread never decreases in any step and is
\* never before CreatedAt, and every AddTurn that succeeds sets it to the
\* current time.
Thm_C12 ==
    [][/\ \A id \in DOMAIN threads \cap DOMAIN threads' :
             threads'[id].LastUpdatedAt >= threads[id].LastUpdatedAt
       /\ \A id \in DOMAIN threads' :
             threads'[id].LastUpdatedAt >= threads'[id].CreatedAt
       /\ (ret'.op = "AddTurn" /\ ret'.err = "")
             => threads'[ret'.id].LastUpdatedAt = now']_vars

Wit_C12 ==
    /\ ret.op = "AddTurn" /\ ret.err = ""
    /\ threads[ret.id].LastUpdatedAt = now
    /\ threads[ret.id].LastUpdatedAt > threads[ret.id].CreatedAt

\* C13: one sweep keeps exactly the threads with now - LastUpdatedAt <= ttl,
\* each unchanged, and deletes every other thread.
Thm_C13 ==
    [][ret'.op = "cleanup"
          => /\ DOMAIN threads'
                  = {id \in DOMAIN threads : now - threads[id].LastUpdatedAt <= ttlHours}
             /\ \A id \in DOMAIN threads' : threads'[id] = threads[id]]_vars

Wit_C13 ==
    /\ ret.op = "cleanup"
    /\ \E id \in DOMAIN threads :
          /\ now - threads[id].LastUpdatedAt = ttlHours
          /\ threads[id].Turns # <<>>
    /\ \E id \in issued : ~Present(id)

\* The turns (by position) that mention path p, and the newest of them.
Mentions(turns, p) ==
    {i \in 1..Len(turns) : \E k \in 1..Len(turns[i].Files) : turns[i].Files[k] = p}

Newest(turns, p) == CHOOSE i \in Mentions(turns, p) : \A j \in Mentions(turns, p) : j <= i

\* C14: GetFileList returns every path some turn of the thread mentions, each
\* once, and a path whose newest mention is in a newer turn comes first.
Thm_C14 ==
    (ret.op = "GetFileList" /\ Present(ret.id))
        => LET turns == threads[ret.id].Turns
               files == ret.files
           IN /\ {files[k] : k \in 1..Len(files)}
                    = UNION {{turns[i].Files[k] : k \in 1..Len(turns[i].Files)} :
                                i \in 1..Len(turns)}
              /\ \A k, l \in 1..Len(files) : files[k] = files[l] => k = l
              /\ \A k, l \in 1..Len(files) :
                    Newest(turns, files[k]) > Newest(turns, files[l]) => k < l

Wit_C14 ==
    /\ ret.op = "GetFileList" /\ Present(ret.id)
    /\ Len(ret.files) = 2
    /\ Newest(threads[ret.id].Turns, ret.files[1]) > Newest(threads[ret.id].Turns, ret.files[2])
    /\ Cardinality(Mentions(threads[ret.id].Turns, ret.files[1])) = 2

\* The payloads that differ in the required fields only.
RequiredArgs ==
    {s @@ f : s \in OptionalArg("step", {"", "s"}), f \in OptionalArg("findings", {"", "f"})}

Lacks(args, key) == key \notin DOMAIN args \/ args[key] = ""

\* C15: a payload in which step or findings is absent or empty (and no other)
\* makes ParseWorkflowState fail with ErrMissingRequired, and an Execute whose
\* parse fails returns that error in the same step: no thread is resolved or
\* created, no turn is persisted, no model is called, the store is unchanged.
Thm_C15 ==
    [][/\ \A args \in RequiredArgs :
             (Lacks(args, "step") \/ Lacks(args, "findings"))
                <=> ParseWorkflowState(args).err = "ErrMissingRequired"
       /\ (ret'.op = "Execute" /\ wf'.state.err = "ErrMissingRequired")
             => /\ wf'.pc = "returned" /\ wf'.err = "ErrMissingRequired"
                /\ wf'.thread = NilThread /\ wf'.persisted = <<>> /\ wf'.gen = 0
                /\ threads' = threads /\ issued' = issued /\ appended' = appended
                /\ generated' = generated]_vars

Wit_C15 ==
    /\ ret.op = "Execute" /\ wf.pc = "returned"
    /\ wf.err = "ErrMissingRequired" /\ wf.state.Field = "findings"
    /\ Present(ret.id) /\ threads[ret.id].Turns # <<>>

\* A workflow call that passed the parse, in flight or returned.
Parsed == wf.tool \in WorkflowTools /\ wf.state.err = ""

\* C19: a call of a workflow tool with next_step_required = true makes no
\* model-generation call, whatever use_assistant_model is, and returns
\* guidance after persisting exactly one turn, of role user.
Cex_C19 ==
    (Parsed /\ wf.state.NextStepRequired)
        => /\ wf.gen = 0
           /\ wf.pc = "returned"
                 => /\ wf.result = "guidance" /\ wf.err = ""
                    /\ Len(wf.persisted) = 1 /\ wf.persisted[1].Role = "user"

\* C20: a finalizing call (next_step_required = false) with
\* use_assistant_model = true whose model call succeeded has appended to its
\* thread exactly two turns, the step as a user turn and then the reply as an
\* assistant turn, and returns the reply.
Cex_C20 ==
    (Parsed /\ wf.pc = "returned" /\ ~wf.state.NextStepRequired /\ wf.state.UseAssistant
        /\ wf.reply # "")
        => /\ wf.persisted
                = <<Tags(ToolTurn(wf.tool, "user", StepContent(wf.tool, wf.state))),
                    Tags(ToolTurn(wf.tool, "assistant", wf.reply))>>
           /\ LastN(TagsOf(appended[wf.thread]), 2) = wf.persisted
           /\ wf.result = wf.reply

\* The findings a saved step turn holds.
HeldFindings(turn) ==
    {f \in {FindingsTexts[i] : i \in 1..Len(FindingsTexts)} :
        \E tool \in WorkflowTools, step \in {"s"} :
            /\ StepContent(tool, [Step |-> step, Findings |-> ""]) # turn.Content
            /\ StepContent(tool, [Step |-> step, Findings |-> f]) = turn.Content}

\* C21: a finalizing call (next_step_required = false) with
\* use_assistant_model = false makes no model-generation call, and the text it
\* returns holds the findings of every step turn the thread holds and the
\* current findings.
Cex_C21 ==
    (Parsed /\ wf.pc = "returned" /\ ~wf.state.NextStepRequired /\ ~wf.state.UseAssistant)
        => /\ wf.gen = 0
           /\ LET turns == threads[wf.thread].Turns
                  shown == {wf.findings[i] : i \in 1..Len(wf.findings)}
              IN /\ wf.state.Findings \in shown
                 /\ \A i \in 1..Len(turns) :
                       turns[i].Role = "user" => HeldFindings(turns[i]) \subseteq shown

\* The steps that call a provider.
ModelCalls == {"Execute.CallExpertModel", "Execute.consultModel", "Execute.synthesize"}

\* C22: a model call that fails (finalizing branch of a workflow tool,
\* consensus consultation, consensus synthesis) ends the tool call with an
\* error and no result; GetHistory returns after it what it returned before
\* it, the turns the call persisted before the model call last; and the return
\* that follows appends no turn.
Thm_C22 ==
    [][/\ (ret'.op \in ModelCalls /\ ret'.err # "")
            => /\ wf'.pc = "returned" /\ wf'.err = ret'.err /\ wf'.result = ""
               /\ GetHistoryResult(wf.thread)' = GetHistoryResult(wf.thread)
               /\ wf'.persisted = wf.persisted
               /\ LastN(TagsOf(GetHistoryResult(wf.thread)'), Len(wf.persisted))
                     = wf.persisted
       /\ (wf.pc = "returned" /\ wf.err = "UpstreamError")
            => threads' = threads /\ appended' = appended]_vars

Wit_C22 ==
    /\ ret.op = "Execute.synthesize" /\ ret.err # ""
    /\ wf.persisted # <<>> /\ wf.persisted[1].Role = "assistant"
    /\ Len(GetHistoryResult(wf.thread)) = 3

\* A consensus step-1 call that passed the parse and that the validations
\* reject: fewer than two participants, or a duplicate (model, stance) pair.
Rejected(state) ==
    /\ state.err = "" /\ state.StepNumber = 1
    /\ Len(state.Models) < 2 \/ HasDuplicate(state.Models)

\* C16: no step of a consensus step-1 call that is rejected for a validation
\* error changes the thread store: the same threads with the same turns.
Cex_C16 ==
    [][(wf'.tool = ConsensusToolName /\ Rejected(wf'.state))
          => threads' = threads]_vars

\* C17: a consensus step-1 call whose models list holds two entries with the
\* same model and the same stance makes no model-generation call and returns
\* a validation error.
Cex_C17 ==
    (wf.tool = ConsensusToolName /\ wf.state.err = "" /\ wf.state.StepNumber = 1
        /\ HasDuplicate(caller.models))
        => /\ wf.gen = 0
           /\ wf.pc = "returned" => wf.err \in ValidationErrors

\* The GenerateContent requests of the caller's session.
SessionLog == SubSeq(generated, caller.gen0 + 1, Len(generated))

\* C18: when the caller re-invokes with the index and the responses returned
\* to it, then at the synthesis request the participants of step 1 have been
\* consulted once each in the order supplied, and the synthesis prompt holds
\* the response of every participant in that order.
Cex_C18 ==
    (caller.pc = "session" /\ SessionLog # <<>>
        /\ SessionLog[Len(SessionLog)].kind = "synthesis")
        => LET participants == ParseModels(caller.models)
               consulted == SubSeq(SessionLog, 1, Len(SessionLog) - 1)
           IN /\ consulted = [i \in 1..Len(participants) |->
                                 [kind |-> "consult", model |-> participants[i].model,
                                  stance |-> participants[i].stance]]
              /\ SessionLog[Len(SessionLog)].responses
                    = [i \in 1..Len(participants) |-> ModelResponseRecord(participants[i])]

\* C23: whenever synthesize runs, the accumulated model responses of the call
\* hold one response for each participant of its models list, in that order.
Cex_C23 ==
    [][ret'.op = "Execute.synthesize"
          => LET models == wf.state.Models
                 responses == wf.state.ModelResponses
             IN /\ Len(responses) = Len(models)
                /\ \A i \in 1..Len(models) :
                      /\ responses[i].model = models[i].model
                      /\ responses[i].stance = models[i].stance]_vars

\* The goroutines inside AddTurn on thread id, between its first write to the
\* thread and its return.
Appending(id) == {h \in Goroutines : calls[h].pc \in {"append", "refresh"} /\ calls[h].id = id}

\* C24: no goroutine reads thread.Turns through the pointer GetThread gave it
\* while another goroutine is inside AddTurn on that thread.
Cex_C24 ==
    [][\A g \in Goroutines :
          (calls[g].pc = "holds" /\ calls'[g].pc = "idle") => Appending(calls[g].thread) = {}]_vars

\* The goroutines inside a mutating method and inside a read-only one.
Writers == {g \in Goroutines : calls[g].pc \in {"locked", "append", "refresh"}}

Readers == {g \in Goroutines : calls[g].pc = "rlocked"}

\* C25: at most one goroutine is inside CreateThread, AddTurn or cleanup, and
\* none is inside a read-only method meanwhile (read-only methods may overlap
\* one another); so whenever a read-only method reads the store, no AddTurn is
\* partially applied: every thread holds the last turns appended to it, whole.
Thm_C25 ==
    [][/\ Cardinality(Writers') <= 1
       /\ Writers' # {} => Readers' = {}
       /\ \A g \in Goroutines :
             (calls[g].pc = "rlocked" /\ calls'[g].pc # "rlocked")
                => \A id \in DOMAIN threads :
                      /\ Appending(id) = {}
                      /\ Values(threads[id].Turns) = LastN(appended[id], maxTurns)]_vars

Wit_C25 ==
    /\ Readers = Goroutines
    /\ \E id \in DOMAIN threads :
          Len(appended[id]) > maxTurns /\ Len(threads[id].Turns) = maxTurns

Thm_C27 ==
    [][/\ ret'.op \in {"AddTurn", "GetThread", "GetHistory", "GetFileList"}
            => \A id \in DOMAIN threads \ {ret'.id} :
                  id \in DOMAIN threads' /\ threads'[id] = threads[id]
       /\ ret'.op = "AddTurn"
            => LET a == ret'.id
                   t1 == TurnInput(nAdded)
                   t2 == TurnInput(nAdded + 1)
               IN /\ threads' = AddTurnTo(threads, a, t1)
                  /\ \A b \in DOMAIN threads \ {a} :
                        AddTurnTo(threads', b, t2)
                           = AddTurnTo(AddTurnTo(threads, b, t2), a, t1)]_vars

Wit_C27 ==
    /\ ret.op = "AddTurn" /\ ret.err = ""
    /\ \E id \in DOMAIN threads \ {ret.id} :
          /\ threads[id].Turns # <<>>
          /\ threads[id].LastUpdatedAt < threads[ret.id].LastUpdatedAt

\* C28: while the context is live the loop answers a tick with a sweep; once
\* the context is cancelled the loop starts no sweep, and when it returns it
\* has closed cleanupDone and sweeps no more.
Cex_C28 ==
    [][/\ (sweep.pc = "select" /\ sweep.ctx = "live" /\ sweep'.pc # "select")
            => sweep'.pc = "cleanup"
       /\ sweep.ctx = "cancelled" /\ sweep.pc = "select" => sweep'.pc # "cleanup"
       /\ sweep.pc = "returned" => (sweep'.pc = "returned" /\ sweep.done)]_vars

\* The turns a call that returned without error was to persist: its step,
\* and the reply when its tool saves the reply.
TurnsDue ==
    IF wf.reply # "" /\ wf.tool \in PersistsReply
    THEN <<Tags(ToolTurn(wf.tool, "user", StepContent(wf.tool, wf.state))),
           Tags(ToolTurn(wf.tool, "assistant", wf.reply))>>
    ELSE <<Tags(ToolTurn(wf.tool, "user", StepContent(wf.tool, wf.state)))>>

\* C29: a tool call that returns without error (a result and a
\* continuation_id) has persisted every turn it was to persist: no AddTurn
\* of the call failed with ErrThreadNotFound.
Cex_C29 ==
    (Parsed /\ wf.pc = "returned" /\ wf.err = "") => wf.persisted = TurnsDue

\* C30: an expired thread is never resurrected: once GetThread reports an
\* issued thread absent, no store operation (AddTurn on its identifier
\* included) makes GetThread return it again.
Cex_C30 ==
    [][\A id \in issued :
          GetThreadResult(id) = NilThread => GetThreadResult(id)' = NilThread]_vars

\* C31: the consensus protocol is one-model-per-call: no invocation of
\* Execute makes more than one model-generation call, the call that consults
\* the last participant included.
Cex_C31 == wf.tool = ConsensusToolName => wf.gen <= 1

\* The participants of a payload: the entries of its models list that name a
\* model, in the order of the list.
Participants(models) == SelectSeq(models, LAMBDA m : m.model # "")

\* The call in progress is a consultation call: step_number > 1,
\* next_step_required, and an index inside the participants of the payload
\* the caller sent.
ConsultationCall ==
    /\ wf.tool = ConsensusToolName
    /\ wf.pc # "idle"
    /\ caller.step > 1
    /\ wf.state.NextStepRequired
    /\ 0 <= caller.index
    /\ caller.index < Len(Participants(caller.models))

\* The turn that holds the response of a participant.
ResponseTurn(model) ==
    Tags(ToolTurn(ConsensusToolName, "assistant",
                  "[" \o model.model \o " - " \o model.stance \o " stance]\n"
                      \o Response(model)))

Step1Call ==
    /\ wf.tool = ConsensusToolName
    /\ wf.pc # "idle"
    /\ caller.step = 1
    /\ Len(Participants(caller.models)) >= 2
    /\ ~HasDuplicate(caller.models)

\* C33: a valid step-1 call makes no model call, persists one user turn
\* that holds the proposal and the participant list, returns guidance that
\* lists the participants in the order given, and reports
\* current_model_index 0 whatever index the payload carried.
Thm_C33 ==
    Step1Call =>
        /\ wf.gen = 0
        /\ Len(generated) = caller.gen0
        /\ wf.pc \in {"resolve", "create", "resolved", "returned"}
        /\ wf.pc = "returned" =>
              /\ wf.err = ""
              /\ wf.result = "guidance"
              /\ wf.persisted =
                    <<Tags(ToolTurn(ConsensusToolName, "user",
                                    "Proposal: " \o wf.state.Proposal \o "\n\nModels: "
                                        \o Sprint(Participants(caller.models))))>>
              /\ wf.report.names = formatModels(Participants(caller.models))
              /\ wf.report.index = 0

\* A step-1 call over three participants returned; its payload carried
\* current_model_index 3 and next_step_required false.
Wit_C33 ==
    /\ Step1Call
    /\ wf.pc = "returned"
    /\ caller.index = 3
    /\ ~wf.state.NextStepRequired
    /\ Len(wf.report.names) = 3
    /\ wf.report.index = 0

\* C37: for every consensus payload (any current_model_index, below zero
\* and past the end included, any step number, any list) Execute reads the
\* list only inside its index range: it ends with a result or an error
\* value, never with an out-of-range abort.
Cex_C37 == wf.tool = ConsensusToolName => wf.pc # "panic"

\* The user turns of a thread that bear findings: step turns written with
\* a findings text.
BearsFindings(turn) ==
    /\ turn.Role = "user"
    /\ \E tool \in {"debug", "analyze"}, step \in StepTexts, i \in 1..Len(FindingsTexts) :
          turn.Content = StepContent(tool, [Step |-> step, Findings |-> FindingsTexts[i]])

\* s is t with some elements left out.
RECURSIVE IsSubSeq(_, _)
IsSubSeq(s, t) ==
    IF s = <<>> THEN TRUE
    ELSE IF t = <<>> THEN FALSE
    ELSE IF Head(s) = Head(t) THEN IsSubSeq(Tail(s), Tail(t))
    ELSE IsSubSeq(s, Tail(t))

\* C34: in a finalizing step with use_assistant_model = true the context
\* passed to the expert model holds the findings-bearing user turn of every
\* earlier step the thread still holds, in turn order, followed by the
\* current findings.
Cex_C34 ==
    [][(ret'.op = "Execute.CallExpertModel" /\ generated' # generated) =>
          LET turns == threads[wf.thread].Turns
              earlier == SelectSeq(SubSeq(turns, 1, Len(turns) - 1), BearsFindings)
              context == generated'[Len(generated')].context
          IN /\ context # <<>>
             /\ context[Len(context)] = wf.state.Findings
             /\ IsSubSeq([i \in 1..Len(earlier) |-> earlier[i].Content],
                         SubSeq(context, 1, Len(context) - 1))]_vars

\* C35: model selection is deterministic: over one set of configured
\* providers and models, two calls of SelectBestModel with the same
\* requirements return the same model and provider, also when several
\* eligible models share the highest intelligence score.
Cex_C35 ==
    registry.pc = "ready" =>
        \A i, j \in 1..Len(registry.selected) :
            registry.selected[i].requirements = registry.selected[j].requirements
                => registry.selected[i].model = registry.selected[j].model

\* The estimated tokens of the last k turns.
RECURSIVE SuffixTokens(_, _)
SuffixTokens(turns, k) ==
    IF k = 0 THEN 0
    ELSE estimateTokens(turns[Len(turns) - k + 1].Content) + SuffixTokens(turns, k - 1)

\* The longest suffix of the turns whose estimated tokens fit the budget.
LongestSuffix(turns, maxTokens) ==
    LET fits == {k \in 0..Len(turns) : SuffixTokens(turns, k) <= maxTokens}
        k == CHOOSE k \in fits : \A j \in fits : j <= k
    IN SubSeq(turns, Len(turns) - k + 1, Len(turns))

\* C40: every call of BuildConversationHistory, a repeated one on the same
\* builder included, returns the longest suffix of the thread's turns, in
\* their order, whose estimated tokens do not exceed maxTokens: all the
\* turns when they all fit.
Cex_C40 ==
    (builder.pc = "built" /\ builder.built > 0)
        => builder.history = LongestSuffix(builder.Turns, builder.maxTokens)

\* C39: for every maxTurns the store can be constructed with, zero and
\* negative values included, AddTurn on an existing thread completes with
\* success and never computes a trim position outside the stored turns.
Cex_C39 ==
    [][(ret'.op = "AddTurn" /\ ret'.id \in DOMAIN threads) =>
          /\ ret'.err = ""
          /\ LET turns == threads[ret'.id].Turns
             IN Len(turns) >= maxTurns => TrimStart(Len(turns)) \in 0..Len(turns)]_vars

\* C36: in the stance prompt built for a consultation, the text included
\* for each response accumulated so far is at most 500 characters long,
\* whatever the length of the response.
Cex_C36 ==
    wf.tool = ConsensusToolName =>
        \A i \in DOMAIN wf.prompt : Len(wf.prompt[i]) <= MaxPerspectiveLen

\* C38: every chat call that returns its result leaves its assistant turn
\* at the end of the thread's history with its own user turn immediately
\* before it, whatever other calls appended to the thread meanwhile.
Cex_C38 ==
    [][\A g \in Goroutines :
          (calls[g].pc = "assistant" /\ calls'[g].pc = "idle") =>
              LET turns == threads'[calls[g].id].Turns
              IN /\ Len(turns) >= 2
                 /\ Tags(turns[Len(turns) - 1]) = Tags(ChatTurn("user", ChatPrompt[g]))
                 /\ Tags(turns[Len(turns)]) =
                        Tags(ChatTurn("assistant", ChatReply(ChatPrompt[g])))]_vars

====
